---- MODULE Spec2Model ----
\* Stock reservation engine of apps/products: one product's stock row
\* (ProductStock), its reservations (StockReservation) and its transaction
\* history (StockTransaction), mutated by StockService, OptimisticStockService,
\* EnhancedStockService and StockMaintenanceService.
\*
\* Each database transaction is one step.  A row lock (select_for_update) is
\* held until commit, so a locking transaction is a single atomic step; the
\* optimistic paths read without a lock and are split into a read step and a
\* write step, between which other callers may commit.
EXTENDS Integers, Sequences, FiniteSets, TLC

\* ---------------------------------------------------------------- bounds
\* rows kept per table in Spec (reservations, transaction log)
MaxRes == 2
MaxLog == 3
\* reservations kept in SpecReserve and in SpecMaintenance
MaxRaceRes == 3
MaxMaintRes == 1
\* reservations kept in SpecAdaptive, and the largest
\* concurrent_reservations of a cached contention sample
MaxAdaptiveRes == 3
MaxSampleCount == 5
\* reservation rows after which no further call starts when storage faults
\* are injected
MaxRetryRes == 3
\* the reservation rows and log entries kept while row locks are followed
MaxLockRes == 2
MaxLockLog == 3
\* the clock: it advances by TickMinutes while it is below MaxTime
MaxTime == 20
TickMinutes == 20

\* ------------------------------------------------------ program constants
DEFAULT_RESERVATION_DURATION == 30
MAX_RETRY_COUNT == 3
HIGH_CONTENTION_THRESHOLD == 5
CRITICAL_STOCK_THRESHOLD == 10
RecentWindowMinutes == 5
\* max_retries of _attempt_reservation_with_isolation: its default and the
\* two values _reserve_hybrid passes
IsolationDefaultRetries == 3
HybridOptimisticRetries == 1
HybridPessimisticRetries == 2

\* ------------------------------------------------------------ input sets
Procs == {1, 2}
Callers == {1}
Retries == {0, 1}
Strategies == {"optimistic_only", "pessimistic_only", "hybrid"}
NoUser == "none"
RegularUsers == {"alice", "bob"}
Superusers == {"admin"}
Users == RegularUsers \cup Superusers
ReserveUsers == {"alice", NoUser}
RaceUsers == {"alice"}
Quantities == {0, 1, 2}
Orders == {"ORDER-1"}
Durations == {0, 15}
LifecycleDurations == {15}
InitialStock == {2}
InboundQuantities == {1}
\* the quantities a direct caller of inbound_stock may pass
InboundAnyQuantities == {-3, -1, 0, 1}
Reasons == {"customer"}
\* the product of the stock row, and an id without stock row
KnownProduct == "product-1"
ProductIds == {KnownProduct, "non-existent-id"}
AdaptiveStrategies == {"adaptive"}
AdaptiveQuantities == {-1, 0, 1, 2}
AnalysisOutcomes == {"sampled", "raised", "no_ledger"}
\* available_stock of a cached contention sample: none, and both sides of
\* the critical threshold
\* what the storage does to an attempt: nothing, an error whose text
\* _is_retryable_error accepts (a deadlock, a serialization failure), or
\* any other exception
RetryQuantities == {1}
RetryBudgets == {1}
Faults == {"none", "retryable", "other"}
SampleStocks == {0, CRITICAL_STOCK_THRESHOLD, CRITICAL_STOCK_THRESHOLD + 1}
NoTime == -1

VARIABLES stock, reservations, log, now, procs, last, granted, cache

vars == <<stock, reservations, log, now, procs, last, granted, cache>>

\* ------------------------------------------------------------- helpers
is_superuser(user) == user \in Superusers

\* ProductStock.Meta.constraints: the two check constraints of the stock row
ConstraintsHold(s) == s.physical_stock >= 0 /\ s.reserved_stock >= 0

\* `duration_minutes or DEFAULT_RESERVATION_DURATION`
EffectiveDuration(d) == IF d = 0 THEN DEFAULT_RESERVATION_DURATION ELSE d

\* `max_retries or self.MAX_RETRY_COUNT`
EffectiveRetries(m) == IF m = 0 THEN MAX_RETRY_COUNT ELSE m

\* StockReservation.objects.create(... status=PENDING, expires_at=...)
NewReservation(q, user, order, d) ==
    [quantity |-> q, order_id |-> order, user_id |-> user, status |-> "pending",
     expires_at |-> now + EffectiveDuration(d), created_at |-> now,
     confirmed_at |-> NoTime, cancelled_at |-> NoTime, cancellation_reason |-> ""]

\* StockService._create_transaction_log: snapshots computed from the row as
\* it is after refresh_from_db()
BaseTransactionLog(s, type, q, reftype, refid) ==
    [transaction_type |-> type, quantity |-> q,
     reference_type |-> reftype, reference_id |-> refid,
     before_physical |-> s.physical_stock - (IF type = "inbound" THEN q ELSE 0),
     after_physical |-> s.physical_stock,
     before_available |-> s.available_stock - (IF type \in {"inbound", "outbound"} THEN q ELSE 0),
     after_available |-> s.available_stock]

\* OptimisticStockService._create_transaction_log and
\* EnhancedStockService._create_transaction_log: s is the row object the
\* caller passes (refreshed in the optimistic service, in-memory in the
\* enhanced one)
ReserveTransactionLog(s, q, rid) ==
    [transaction_type |-> "reserve", quantity |-> q,
     reference_type |-> "reservation", reference_id |-> ToString(rid),
     before_physical |-> s.physical_stock,
     after_physical |-> s.physical_stock,
     before_available |-> s.available_stock + q,
     after_available |-> s.available_stock]

\* the conditional UPDATE without its version and stock filter
UnconditionalUpdateRows(version, q) == 1

\* the conditional UPDATE with its stock filter only, without the version
VersionlessUpdateRows(version, q) ==
    IF stock.available_stock >= q THEN 1 ELSE 0

\* the filter of the conditional UPDATE: id, updated_at = captured version,
\* available_stock >= quantity; the number of rows it matches
OptimisticUpdateRows(version, q) ==
    IF stock.version = version /\ stock.available_stock >= q THEN 1 ELSE 0

\* the hold without the decrement of available_stock
HoldReservedOnly(s, q) ==
    [s EXCEPT !.reserved_stock = @ + q]

\* reserved_stock = F("reserved_stock") + q, available_stock = F("available_stock") - q
HoldStock(s, q) ==
    [s EXCEPT !.reserved_stock = @ + q, !.available_stock = @ - q]

\* the same update with updated_at set (the row's version token)
HoldStockVersioned(s, q) ==
    [HoldStock(s, q) EXCEPT !.version = @ + 1]

IdleProc ==
    [pc |-> "idle", qty |-> 0, user |-> NoUser, order |-> "", dur |-> 0,
     version |-> 0, seen_physical |-> 0, seen_reserved |-> 0, seen_available |-> 0,
     retry |-> 0, max_retries |-> 0, strategy |-> "", made |-> 0, rid |-> 0,
     attempts |-> 0]

\* Observation of the step that just ran: the operation, whether the call
\* returned in this step (done) and with what result (ok, code, conflict),
\* the reservation it touched, the rows its call has committed so far (made),
\* the turns of its retry loops the call has entered so far (attempts),
\* the quantity an availability check reports (available_quantity)
\* and, for a step that succeeded, its inputs and the row s before it.
Observed(op, done, ok, code, conflict, rid, q, user, d, force, made, s) ==
    [op |-> op, done |-> done, ok |-> ok, code |-> code, conflict |-> conflict,
     rid |-> rid, qty |-> q, user |-> user, dur |-> d, force |-> force, made |-> made,
     pre_reserved |-> s.reserved_stock, pre_available |-> s.available_stock,
     strategy_used |-> "", attempts |-> 0, available_quantity |-> 0]

NoStock == [reserved_stock |-> 0, available_stock |-> 0]

Result(op, done, ok, code, conflict, rid, q, user, d, force, made) ==
    IF ok
    THEN Observed(op, done, ok, code, conflict, rid, q, user, d, force, made, stock)
    ELSE Observed(op, done, ok, code, conflict, rid, 0, NoUser, 0, FALSE, made, NoStock)

\* the result of a reserve call keeps the quantity and the user also on failure
ReserveResult(op, done, ok, code, conflict, rid, q, user, d, made) ==
    IF ok
    THEN Observed(op, done, ok, code, conflict, rid, q, user, d, FALSE, made, stock)
    ELSE Observed(op, done, ok, code, conflict, rid, q, user, 0, FALSE, made, NoStock)

Init ==
    /\ \E k \in InitialStock :
         stock = [physical_stock |-> k, reserved_stock |-> 0, available_stock |-> k, version |-> 0]
    /\ reservations = <<>>
    /\ log = <<>>
    /\ now = 0
    /\ procs = [p \in Procs |-> IdleProc]
    /\ last = Observed("init", FALSE, FALSE, "", FALSE, 0, 0, NoUser, 0, FALSE, 0, NoStock)
    /\ granted = 0
    /\ cache = {}

\* ------------------------------------------------ StockService.reserve_stock
\* the quantity check that lets a quantity of zero through
InvalidQuantityNegative(q) ==
    q < 0

\* `if quantity <= 0`, the first statement of every reserve entry point
InvalidQuantity(q) ==
    q <= 0

\* the availability check that lets every request through
InsufficientStockNever(s, q) ==
    FALSE

\* `if stock.available_stock < quantity`, on the row the attempt has read
InsufficientStock(s, q) ==
    s.available_stock < q

\* the transaction.atomic() block: lock, check, create, update; the log is
\* written after the block has committed (ReserveStockLog)
reserve_stock(p, q, user, order, d) ==
    /\ procs[p].pc = "idle"
    /\ IF InvalidQuantity(q)
       THEN /\ last' = ReserveResult("reserve_stock", TRUE, FALSE, "INVALID_QUANTITY", FALSE, 0, q, user, d, 0)
            /\ UNCHANGED <<stock, reservations, log, now, procs, granted, cache>>
       ELSE IF InsufficientStock(stock, q)
       THEN /\ last' = ReserveResult("reserve_stock", TRUE, FALSE, "INSUFFICIENT_STOCK", FALSE, 0, q, user, d, 0)
            /\ UNCHANGED <<stock, reservations, log, now, procs, granted, cache>>
       ELSE IF user = NoUser
       THEN \* user_id is NOT NULL: create() raises, the block rolls back
            /\ last' = ReserveResult("reserve_stock", TRUE, FALSE, "RESERVATION_ERROR", FALSE, 0, q, user, d, 0)
            /\ UNCHANGED <<stock, reservations, log, now, procs, granted, cache>>
       ELSE /\ reservations' = Append(reservations, NewReservation(q, user, order, d))
            /\ stock' = HoldStock(stock, q)
            /\ procs' = [procs EXCEPT ![p] = [IdleProc EXCEPT !.pc = "base_log", !.qty = q,
                                              !.user = user, !.dur = d,
                                              !.seen_reserved = stock.reserved_stock,
                                              !.seen_available = stock.available_stock,
                                              !.made = 1, !.rid = Len(reservations) + 1]]
            /\ last' = ReserveResult("reserve_stock", FALSE, TRUE, "", FALSE, Len(reservations) + 1, q, user, d, 1)
            /\ UNCHANGED <<log, now, granted, cache>>

\* _create_transaction_log after the block, then the success result
ReserveStockLog(p) ==
    /\ procs[p].pc = "base_log"
    /\ log' = Append(log, BaseTransactionLog(stock, "reserve", procs[p].qty,
                                             "reservation", ToString(procs[p].rid)))
    /\ procs' = [procs EXCEPT ![p] = IdleProc]
    /\ granted' = granted + procs[p].qty
    /\ last' = Observed("reserve_stock_log", TRUE, TRUE, "", FALSE, procs[p].rid, procs[p].qty,
                        procs[p].user, procs[p].dur, FALSE, procs[p].made,
                        [reserved_stock |-> procs[p].seen_reserved,
                         available_stock |-> procs[p].seen_available])
    /\ UNCHANGED <<stock, reservations, now, cache>>

\* the confirm without the decrement of available_stock
ConfirmReservedOnly(s, q) ==
    [s EXCEPT !.reserved_stock = @ - q]

\* ------------------------------------------ StockService.confirm_reservation
ConfirmStock(s, q) ==
    [s EXCEPT !.reserved_stock = @ - q, !.available_stock = @ - q]

\* the checks with the one of the status before the one of the requester
ConfirmRejectionStatusFirst(r, user) ==
    IF r.status # "pending" THEN "INVALID_STATUS"
    ELSE IF ~is_superuser(user) THEN "PERMISSION_DENIED"
    ELSE IF r.expires_at < now THEN "EXPIRED"
    ELSE ""

\* the checks without the one for a reservation past its expires_at
ConfirmRejectionWithoutExpiry(r, user) ==
    IF ~is_superuser(user) THEN "PERMISSION_DENIED"
    ELSE IF r.status # "pending" THEN "INVALID_STATUS"
    ELSE ""

\* the checks of confirm_reservation before it touches the rows, in order;
\* "" when the confirm may proceed
ConfirmRejection(r, user) ==
    IF ~is_superuser(user) THEN "PERMISSION_DENIED"
    ELSE IF r.status # "pending" THEN "INVALID_STATUS"
    ELSE IF r.expires_at < now THEN "EXPIRED"
    ELSE ""

confirm_reservation(rid, user) ==
    LET r == reservations[rid]
        s == ConfirmStock(stock, r.quantity)
        rej == ConfirmRejection(r, user)
        Fail(code) ==
            /\ last' = Result("confirm_reservation", TRUE, FALSE, code, FALSE, rid, r.quantity, user, 0, FALSE, 0)
            /\ UNCHANGED <<stock, reservations, log, now, procs, granted, cache>>
    IN /\ rid \in 1..Len(reservations)
       /\ IF rej # "" THEN Fail(rej)
          ELSE IF ~ConstraintsHold(s) THEN Fail("ERROR")
          ELSE /\ reservations' = [reservations EXCEPT ![rid].status = "confirmed",
                                                       ![rid].confirmed_at = now]
               /\ stock' = s
               /\ log' = Append(log, BaseTransactionLog(s, "outbound", r.quantity, "order", r.order_id))
               /\ last' = Result("confirm_reservation", TRUE, TRUE, "", FALSE, rid, r.quantity, user, 0, FALSE, 0)
               /\ UNCHANGED <<now, procs, granted, cache>>

\* ------------------------------------------- StockService.cancel_reservation
\* the release without the increment of available_stock
ReleaseReservedOnly(s, q) ==
    [s EXCEPT !.reserved_stock = @ - q]

\* reserved_stock = F("reserved_stock") - q, available_stock = F("available_stock") + q
ReleaseStock(s, q) ==
    [s EXCEPT !.reserved_stock = @ - q, !.available_stock = @ + q]

\* the release applied to every cancelled reservation, confirmed or not
CancelStockAlways(s, r) ==
    ReleaseStock(s, r.quantity)

\* the row after cancel: released only when the reservation was never confirmed
CancelStock(s, r) ==
    IF r.confirmed_at = NoTime THEN ReleaseStock(s, r.quantity) ELSE s

\* the checks without the one that demands the owner or a superuser
CancelRejectionWithoutOwner(r, user, force) ==
    IF r.status = "cancelled" THEN "ALREADY_CANCELLED"
    ELSE IF force /\ ~is_superuser(user) THEN "FORCE_DENIED"
    ELSE IF ~force /\ r.status # "pending" THEN "NOT_PENDING"
    ELSE ""

\* the checks without the one for an already cancelled reservation
CancelRejectionWithoutCancelled(r, user, force) ==
    IF force /\ ~is_superuser(user) THEN "FORCE_DENIED"
    ELSE IF ~(is_superuser(user) \/ r.user_id = user) THEN "PERMISSION_DENIED"
    ELSE IF ~force /\ r.status # "pending" THEN "NOT_PENDING"
    ELSE ""

\* the checks without the one that demands PENDING of an unforced cancel
CancelRejectionWithoutPending(r, user, force) ==
    IF r.status = "cancelled" THEN "ALREADY_CANCELLED"
    ELSE IF force /\ ~is_superuser(user) THEN "FORCE_DENIED"
    ELSE IF ~(is_superuser(user) \/ r.user_id = user) THEN "PERMISSION_DENIED"
    ELSE ""

\* the checks of cancel_reservation before it touches the rows, in order;
\* "" when the cancel may proceed
CancelRejection(r, user, force) ==
    IF r.status = "cancelled" THEN "ALREADY_CANCELLED"
    ELSE IF force /\ ~is_superuser(user) THEN "FORCE_DENIED"
    ELSE IF ~(is_superuser(user) \/ r.user_id = user) THEN "PERMISSION_DENIED"
    ELSE IF ~force /\ r.status # "pending" THEN "NOT_PENDING"
    ELSE ""

cancel_reservation(rid, user, reason, force) ==
    LET r == reservations[rid]
        s == CancelStock(stock, r)
        rej == CancelRejection(r, user, force)
        Fail(code) ==
            /\ last' = Result("cancel_reservation", TRUE, FALSE, code, FALSE, rid, r.quantity, user, 0, force, 0)
            /\ UNCHANGED <<stock, reservations, log, now, procs, granted, cache>>
    IN /\ rid \in 1..Len(reservations)
       /\ IF rej # "" THEN Fail(rej)
          ELSE IF ~ConstraintsHold(s) THEN Fail("ERROR")
          ELSE /\ reservations' = [reservations EXCEPT ![rid].status = "cancelled",
                                                       ![rid].cancelled_at = now,
                                                       ![rid].cancellation_reason = reason]
               /\ stock' = s
               /\ log' = Append(log, BaseTransactionLog(s, "release", r.quantity,
                                                        "reservation", ToString(rid)))
               /\ last' = Result("cancel_reservation", TRUE, TRUE, "", FALSE, rid, r.quantity, user, 0, force, 0)
               /\ UNCHANGED <<now, procs, granted, cache>>

\* --------------------------------------------- StockService.check_availablity
\* the names that resolve behind a relation to Product in a query keyword:
\* the fields of Product and the lookups of a foreign key
ProductLookups ==
    {"id", "pk", "name", "description", "status", "price", "created_at", "updated_at",
     "exact", "in", "isnull", "gt", "gte", "lt", "lte"}

\* the keyword of the query of check_availablity, `product___id`, split at
\* the separator "__" as the query builder splits it
CheckAvailabilityLookup == <<"product", "_id">>

\* whether the query builder accepts the path; it raises FieldError otherwise
ResolvesLookup(path) == path[1] = "product" /\ path[2] \in ProductLookups

\* the StockCheckResult: ok is is_available, qty is request_quantity
CheckResult(is_available, available, q) ==
    [Observed("check_availablity", TRUE, is_available, "", FALSE, 0, q, NoUser, 0, FALSE, 0, NoStock)
       EXCEPT !.available_quantity = available]

\* the method writes nothing; its result is the only thing that changes
check_availablity(product_id, q, include_reserved) ==
    LET available == IF include_reserved THEN stock.physical_stock ELSE stock.available_stock
    IN /\ last' = IF ~ResolvesLookup(CheckAvailabilityLookup)
                  THEN \* FieldError is not ProductStock.DoesNotExist: it leaves the method
                       [CheckResult(FALSE, 0, q) EXCEPT !.code = "RAISED"]
                  ELSE IF product_id # KnownProduct
                  THEN CheckResult(FALSE, 0, q)
                  ELSE CheckResult(available >= q, available, q)
       /\ UNCHANGED <<stock, reservations, log, now, procs, granted, cache>>

\* ------------------------------------------------ StockService.inbound_stock
\* the inbound without the increment of available_stock
InboundPhysicalOnly(s, q) ==
    [s EXCEPT !.physical_stock = @ + q]

\* physical_stock = F("physical_stock") + quantity,
\* available_stock = F("available_stock") + quantity
InboundStock(s, q) ==
    [s EXCEPT !.physical_stock = @ + q, !.available_stock = @ + q]

inbound_stock(q, user) ==
    LET s == InboundStock(stock, q)
        Fail(code) ==
            /\ last' = Result("inbound_stock", TRUE, FALSE, code, FALSE, 0, q, user, 0, FALSE, 0)
            /\ UNCHANGED <<stock, reservations, log, now, procs, granted, cache>>
    IN IF ~is_superuser(user) THEN Fail("PERMISSION_DENIED")
       ELSE IF ~ConstraintsHold(s) THEN Fail("ERROR")
       ELSE /\ stock' = s
            /\ log' = Append(log, BaseTransactionLog(s, "inbound", q, "inbound",
                                                     "INBOUND-" \o ToString(now)))
            /\ last' = Result("inbound_stock", TRUE, TRUE, "", FALSE, 0, q, user, 0, FALSE, 0)
            /\ UNCHANGED <<reservations, now, procs, granted, cache>>

\* ------------------- OptimisticStockService.reserve_stock_optimistic
\* the result with the strategy of the call c, "" outside the enhanced service
StrategyCarried(result, c) ==
    [result EXCEPT !.strategy_used = c.strategy]

\* the result of a step of a call that has entered n turns of its retry loops
Attempted(result, n) ==
    [result EXCEPT !.attempts = n]

\* steps 1-3 of _attempt_reservation: read the row without a lock, keep its
\* updated_at as the version, check the available stock
AttemptRead(p, c, op) ==
    IF InsufficientStock(stock, c.qty)
    THEN /\ last' = Attempted(StrategyCarried(ReserveResult(op, TRUE, FALSE, "INSUFFICIENT_STOCK", FALSE, 0, c.qty, c.user, c.dur, c.made), c), c.attempts + 1)
         /\ procs' = [procs EXCEPT ![p] = IdleProc]
         /\ UNCHANGED <<stock, reservations, log, now, granted>>
    ELSE /\ last' = Attempted(StrategyCarried(ReserveResult(op, FALSE, FALSE, "", FALSE, 0, c.qty, c.user, c.dur, c.made), c), c.attempts + 1)
         /\ procs' = [procs EXCEPT ![p] = [c EXCEPT !.version = stock.version,
                                                    !.seen_physical = stock.physical_stock,
                                                    !.seen_available = stock.available_stock,
                                                    !.attempts = @ + 1]]
         /\ UNCHANGED <<stock, reservations, log, now, granted>>

reserve_stock_optimistic(p, q, user, order, d, m) ==
    /\ procs[p].pc = "idle"
    /\ UNCHANGED cache
    /\ IF InvalidQuantity(q)
       THEN /\ last' = ReserveResult("reserve_stock_optimistic", TRUE, FALSE, "INVALID_QUANTITY", FALSE, 0, q, user, d, 0)
            /\ UNCHANGED <<stock, reservations, log, now, procs, granted>>
       ELSE AttemptRead(p, [IdleProc EXCEPT !.pc = "opt_write", !.qty = q, !.user = user,
                                            !.order = order, !.dur = d,
                                            !.max_retries = EffectiveRetries(m)],
                        "reserve_stock_optimistic")

\* the next turn of the retry loop, after the backoff sleep
attempt_reservation_read(p) ==
    /\ procs[p].pc = "opt_read"
    /\ UNCHANGED cache
    /\ AttemptRead(p, [procs[p] EXCEPT !.pc = "opt_write"], "attempt_reservation_read")

\* steps 5-8 of _attempt_reservation and the commit of its atomic block.
\* Leaving the block by `return` commits it: on a conflict the reservation
\* row created in step 5 stays.  `fault` is what the storage does to the
\* attempt.
attempt_reservation_write(p, fault) ==
    LET c == procs[p]
        rid == Len(reservations) + 1
        s == HoldStockVersioned(stock, c.qty)
    IN /\ c.pc = "opt_write"
       /\ IF c.user = NoUser \/ fault # "none"
          THEN \* create() raises IntegrityError, or the storage raises: rollback;
               \* the caller's `except Exception` returns without another turn
               /\ last' = Attempted(ReserveResult("attempt_reservation_write", TRUE, FALSE, "RESERVATION_ERROR", FALSE, 0, c.qty, c.user, c.dur, c.made), c.attempts)
               /\ procs' = [procs EXCEPT ![p] = IdleProc]
               /\ UNCHANGED <<stock, reservations, log, now, granted, cache>>
          ELSE /\ reservations' = Append(reservations, NewReservation(c.qty, c.user, c.order, c.dur))
               /\ IF OptimisticUpdateRows(c.version, c.qty) = 0
                  THEN /\ IF c.retry + 1 <= c.max_retries
                          THEN /\ procs' = [procs EXCEPT ![p] = [c EXCEPT !.pc = "opt_read", !.retry = @ + 1, !.made = @ + 1]]
                               /\ last' = Attempted(ReserveResult("attempt_reservation_write", FALSE, FALSE, "OPTIMISTIC_LOCK_CONFLICT", TRUE, rid, c.qty, c.user, c.dur, c.made + 1), c.attempts)
                          ELSE /\ procs' = [procs EXCEPT ![p] = IdleProc]
                               /\ last' = Attempted(ReserveResult("attempt_reservation_write", TRUE, FALSE, "MAX_RETRY_EXCEEDED", TRUE, rid, c.qty, c.user, c.dur, c.made + 1), c.attempts)
                       /\ UNCHANGED <<stock, log, now, granted, cache>>
                  ELSE /\ stock' = s
                       /\ log' = Append(log, ReserveTransactionLog(s, c.qty, rid))
                       /\ procs' = [procs EXCEPT ![p] = IdleProc]
                       /\ granted' = granted + c.qty
                       /\ last' = Attempted(ReserveResult("attempt_reservation_write", TRUE, TRUE, "", FALSE, rid, c.qty, c.user, c.dur, c.made + 1), c.attempts)
                       /\ UNCHANGED <<now, cache>>

\* ------------------------ EnhancedStockService._analyze_stock_contention
\* the dict that _analyze_stock_contention builds and caches
ContentionSample(available, concurrent, physical, reserved) ==
    [available_stock |-> available, concurrent_reservations |-> concurrent,
     physical_stock |-> physical, reserved_stock |-> reserved]

\* the dict returned when the product has no stock row
ZeroSample == ContentionSample(0, 0, 0, 0)

\* PENDING reservations created within the last five minutes
RecentReservations ==
    Cardinality({i \in 1..Len(reservations) :
                   /\ reservations[i].status = "pending"
                   /\ reservations[i].created_at >= now - RecentWindowMinutes})

\* the dict computed from the rows on a cache miss
FreshSample ==
    ContentionSample(stock.available_stock, RecentReservations,
                     stock.physical_stock, stock.reserved_stock)

\* the value _analyze_stock_contention returns: the cached dict when there
\* is one, the zeroed dict for a product without stock row, else FreshSample
analyze_stock_contention(analysis) ==
    IF analysis = "no_ledger" THEN ZeroSample
    ELSE IF cache # {} THEN CHOOSE info \in cache : TRUE
    ELSE FreshSample

\* the cache entry after the analysis: set on a miss only
CacheAfterAnalysis(analysis) ==
    IF analysis = "sampled" /\ cache = {} THEN {FreshSample} ELSE cache

\* -------------------------- EnhancedStockService._select_optimal_strategy
\* the thresholds compared with > in place of >= and < in place of <=
SelectStrategyStrict(stock_info) ==
    IF /\ stock_info.concurrent_reservations > HIGH_CONTENTION_THRESHOLD
       /\ stock_info.available_stock < CRITICAL_STOCK_THRESHOLD
    THEN "pessimistic_only"
    ELSE IF stock_info.concurrent_reservations > 2 THEN "hybrid"
    ELSE "optimistic_only"

\* the three branches on the analysed dict
SelectStrategy(stock_info) ==
    IF /\ stock_info.concurrent_reservations >= HIGH_CONTENTION_THRESHOLD
       /\ stock_info.available_stock <= CRITICAL_STOCK_THRESHOLD
    THEN "pessimistic_only"
    ELSE IF stock_info.concurrent_reservations >= 2 THEN "hybrid"
    ELSE "optimistic_only"

\* an exception of the analysis is caught and answered with OPTIMISTIC_ONLY
select_optimal_strategy(analysis) ==
    IF analysis = "raised" THEN "optimistic_only"
    ELSE SelectStrategy(analyze_stock_contention(analysis))

\* ----------------------------- EnhancedStockService.reserve_stock_enhanced
\* the result of an attempt, with the strategy its call runs under
StrategyResult(op, done, ok, code, conflict, rid, q, user, d, made, strategy) ==
    [ReserveResult(op, done, ok, code, conflict, rid, q, user, d, made)
       EXCEPT !.strategy_used = strategy]

\* line 238 of _reserve_hybrid with the conflict flag left out
FallsBackOnAnyFailure(strategy, ok, conflict) ==
    strategy = "hybrid" /\ ~ok

\* _reserve_hybrid, line 238: the second stage runs after a first stage that
\* failed with the conflict flag set
FallsBack(strategy, ok, conflict) ==
    strategy = "hybrid" /\ ~ok /\ conflict

\* the `except Exception` branch without the test of the retry budget
StorageErrorUnbudgeted(p, c, op, fault, again, sampled) ==
    /\ IF fault = "retryable"
       THEN /\ procs' = [procs EXCEPT ![p] = [c EXCEPT !.pc = again, !.retry = @ + 1]]
            /\ last' = Attempted(StrategyResult(op, FALSE, FALSE, "RETRYABLE_ERROR", FALSE, 0, c.qty, c.user, c.dur, c.made, c.strategy), c.attempts)
       ELSE /\ procs' = [procs EXCEPT ![p] = IdleProc]
            /\ last' = Attempted(StrategyResult(op, TRUE, FALSE, "RESERVATION_ERROR", FALSE, 0, c.qty, c.user, c.dur, c.made, c.strategy), c.attempts)
    /\ cache' = sampled
    /\ UNCHANGED <<stock, reservations, log, now, granted>>

\* the `except Exception` branch of _attempt_reservation_with_isolation: the
\* block is rolled back; a retryable error with budget left starts another
\* turn of the loop (pc `again`), anything else returns RESERVATION_ERROR
\* without the conflict flag.  c counts the turn that failed.
StorageError(p, c, op, fault, again, sampled) ==
    /\ IF fault = "retryable" /\ c.retry < c.max_retries
       THEN /\ procs' = [procs EXCEPT ![p] = [c EXCEPT !.pc = again, !.retry = @ + 1]]
            /\ last' = Attempted(StrategyResult(op, FALSE, FALSE, "RETRYABLE_ERROR", FALSE, 0, c.qty, c.user, c.dur, c.made, c.strategy), c.attempts)
       ELSE /\ procs' = [procs EXCEPT ![p] =
                           IF again = "enh_read" /\ FallsBack(c.strategy, FALSE, FALSE)
                           THEN [c EXCEPT !.pc = "enh_pess"]
                           ELSE IdleProc]
            /\ last' = Attempted(StrategyResult(op, ~(again = "enh_read" /\ FallsBack(c.strategy, FALSE, FALSE)),
                                                FALSE, "RESERVATION_ERROR", FALSE, 0, c.qty, c.user, c.dur, c.made, c.strategy), c.attempts)
    /\ cache' = sampled
    /\ UNCHANGED <<stock, reservations, log, now, granted>>

\* the locked attempt that takes the available stock from the contention
\* sample when there is one
PessimisticAttemptFromSample(p, c, op, sampled, fault) ==
    LET rid == Len(reservations) + 1
        n == c.attempts + 1
        s == HoldStockVersioned(stock, c.qty)
        seen == IF sampled # {} THEN CHOOSE info \in sampled : TRUE ELSE stock
    IN IF fault # "none"
       THEN StorageError(p, [c EXCEPT !.attempts = n], op, fault, "enh_lock", sampled)
       ELSE IF InsufficientStock(seen, c.qty)
       THEN /\ last' = Attempted(StrategyResult(op, TRUE, FALSE, "INSUFFICIENT_STOCK", FALSE, 0, c.qty, c.user, c.dur, c.made, c.strategy), n)
            /\ procs' = [procs EXCEPT ![p] = IdleProc]
            /\ cache' = sampled
            /\ UNCHANGED <<stock, reservations, log, now, granted>>
       ELSE IF c.user = NoUser
       THEN \* IntegrityError without "available_stock" in its text is re-raised
            /\ last' = Attempted(StrategyResult(op, TRUE, FALSE, "RAISED", FALSE, 0, c.qty, c.user, c.dur, c.made, c.strategy), n)
            /\ procs' = [procs EXCEPT ![p] = IdleProc]
            /\ cache' = sampled
            /\ UNCHANGED <<stock, reservations, log, now, granted>>
       ELSE /\ reservations' = Append(reservations, NewReservation(c.qty, c.user, c.order, c.dur))
            /\ stock' = s
            /\ log' = Append(log, ReserveTransactionLog(s, c.qty, rid))
            /\ procs' = [procs EXCEPT ![p] = IdleProc]
            /\ granted' = granted + c.qty
            /\ last' = Attempted(StrategyResult(op, TRUE, TRUE, "", FALSE, rid, c.qty, c.user, c.dur, c.made + 1, c.strategy), n)
            \* _invalidate_cache deletes the contention entry
            /\ cache' = {}
            /\ UNCHANGED now

\* One turn of the loop of _attempt_reservation_with_isolation with
\* use_select_for_update=True: the row is locked from the read to the commit,
\* so the turn is one step; `sampled` is the cache entry the call's analysis
\* has left, `fault` what the storage does to the turn
PessimisticAttempt(p, c, op, sampled, fault) ==
    LET rid == Len(reservations) + 1
        n == c.attempts + 1
        s == HoldStockVersioned(stock, c.qty)
    IN IF fault # "none"
       THEN StorageError(p, [c EXCEPT !.attempts = n], op, fault, "enh_lock", sampled)
       ELSE IF InsufficientStock(stock, c.qty)
       THEN /\ last' = Attempted(StrategyResult(op, TRUE, FALSE, "INSUFFICIENT_STOCK", FALSE, 0, c.qty, c.user, c.dur, c.made, c.strategy), n)
            /\ procs' = [procs EXCEPT ![p] = IdleProc]
            /\ cache' = sampled
            /\ UNCHANGED <<stock, reservations, log, now, granted>>
       ELSE IF c.user = NoUser
       THEN \* IntegrityError without "available_stock" in its text is re-raised
            /\ last' = Attempted(StrategyResult(op, TRUE, FALSE, "RAISED", FALSE, 0, c.qty, c.user, c.dur, c.made, c.strategy), n)
            /\ procs' = [procs EXCEPT ![p] = IdleProc]
            /\ cache' = sampled
            /\ UNCHANGED <<stock, reservations, log, now, granted>>
       ELSE /\ reservations' = Append(reservations, NewReservation(c.qty, c.user, c.order, c.dur))
            /\ stock' = s
            /\ log' = Append(log, ReserveTransactionLog(s, c.qty, rid))
            /\ procs' = [procs EXCEPT ![p] = IdleProc]
            /\ granted' = granted + c.qty
            /\ last' = Attempted(StrategyResult(op, TRUE, TRUE, "", FALSE, rid, c.qty, c.user, c.dur, c.made + 1, c.strategy), n)
            \* _invalidate_cache deletes the contention entry
            /\ cache' = {}
            /\ UNCHANGED now

\* `analysis` is what the contention analysis of an ADAPTIVE call meets:
\* "sampled" (it returns a dict), "raised" (the cache or a query raises) or
\* "no_ledger" (the product has no stock row); `fault` is what the storage
\* does to the first turn of a locked attempt (an unlocked attempt meets it
\* in its write step)
reserve_stock_enhanced(p, q, user, order, d, strategy, analysis, fault) ==
    LET st == IF strategy = "adaptive" THEN select_optimal_strategy(analysis) ELSE strategy
        sampled == IF strategy = "adaptive" THEN CacheAfterAnalysis(analysis) ELSE cache
        c == [IdleProc EXCEPT !.qty = q, !.user = user, !.order = order, !.dur = d,
                              !.strategy = st,
                              !.max_retries = IF st = "hybrid" THEN HybridOptimisticRetries
                                              ELSE IsolationDefaultRetries]
    IN /\ procs[p].pc = "idle"
       /\ IF InvalidQuantity(q)
          THEN /\ last' = ReserveResult("reserve_stock_enhanced", TRUE, FALSE, "INVALID_QUANTITY", FALSE, 0, q, user, d, 0)
               /\ UNCHANGED <<stock, reservations, log, now, procs, granted, cache>>
          ELSE IF analysis = "no_ledger"
          THEN \* ProductStock.DoesNotExist is not retryable
               /\ last' = Attempted(StrategyResult("reserve_stock_enhanced", TRUE, FALSE, "RESERVATION_ERROR", FALSE, 0, q, user, d, 0, st), 1)
               /\ UNCHANGED <<stock, reservations, log, now, procs, granted, cache>>
          ELSE IF st = "pessimistic_only"
          THEN PessimisticAttempt(p, c, "reserve_stock_enhanced", sampled, fault)
          ELSE /\ AttemptRead(p, [c EXCEPT !.pc = "enh_write"], "reserve_stock_enhanced")
               /\ cache' = sampled

\* One turn of the loop of _attempt_reservation_with_isolation with
\* use_select_for_update=False, from the create to the commit of the block.
\* The log entry is built from the row object read at the start of the
\* attempt, which is not refreshed.
attempt_reservation_with_isolation_write(p, fault) ==
    LET c == procs[p]
        rid == Len(reservations) + 1
        seen == [physical_stock |-> c.seen_physical, available_stock |-> c.seen_available]
    IN /\ c.pc = "enh_write"
       /\ IF fault # "none"
          THEN StorageError(p, c, "attempt_reservation_with_isolation_write", fault, "enh_read", cache)
          ELSE IF c.user = NoUser
          THEN /\ last' = Attempted(StrategyResult("attempt_reservation_with_isolation_write", TRUE, FALSE, "RAISED", FALSE, 0, c.qty, c.user, c.dur, c.made, c.strategy), c.attempts)
               /\ procs' = [procs EXCEPT ![p] = IdleProc]
               /\ UNCHANGED <<stock, reservations, log, now, granted, cache>>
          ELSE /\ reservations' = Append(reservations, NewReservation(c.qty, c.user, c.order, c.dur))
               /\ IF OptimisticUpdateRows(c.version, c.qty) = 0
                  THEN /\ IF FallsBack(c.strategy, FALSE, TRUE)
                          THEN /\ procs' = [procs EXCEPT ![p] = [c EXCEPT !.pc = "enh_pess", !.made = @ + 1]]
                               /\ last' = Attempted(StrategyResult("attempt_reservation_with_isolation_write", FALSE, FALSE, "OPTIMISTIC_LOCK_CONFLICT", TRUE, rid, c.qty, c.user, c.dur, c.made + 1, c.strategy), c.attempts)
                          ELSE /\ procs' = [procs EXCEPT ![p] = IdleProc]
                               /\ last' = Attempted(StrategyResult("attempt_reservation_with_isolation_write", TRUE, FALSE, "OPTIMISTIC_LOCK_CONFLICT", TRUE, rid, c.qty, c.user, c.dur, c.made + 1, c.strategy), c.attempts)
                       /\ UNCHANGED <<stock, log, now, granted, cache>>
                  ELSE /\ stock' = HoldStockVersioned(stock, c.qty)
                       /\ log' = Append(log, ReserveTransactionLog(seen, c.qty, rid))
                       /\ procs' = [procs EXCEPT ![p] = IdleProc]
                       /\ granted' = granted + c.qty
                       /\ last' = Attempted(StrategyResult("attempt_reservation_with_isolation_write", TRUE, TRUE, "", FALSE, rid, c.qty, c.user, c.dur, c.made + 1, c.strategy), c.attempts)
                       \* _invalidate_cache deletes the contention entry
                       /\ cache' = {}
                       /\ UNCHANGED now

\* the next turn of the loop of _attempt_reservation_with_isolation after a
\* retryable error and the backoff sleep: the unlocked read, or the whole
\* locked attempt
attempt_reservation_with_isolation_retry(p, fault) ==
    LET c == procs[p]
    IN \/ /\ c.pc = "enh_read"
          /\ AttemptRead(p, [c EXCEPT !.pc = "enh_write"], "attempt_reservation_with_isolation_retry")
          /\ UNCHANGED cache
       \/ /\ c.pc = "enh_lock"
          /\ PessimisticAttempt(p, c, "attempt_reservation_with_isolation_retry", cache, fault)

\* _reserve_hybrid, second stage: the pessimistic attempt after a conflict,
\* with its own retry count and budget
reserve_hybrid_fallback(p, fault) ==
    /\ procs[p].pc = "enh_pess"
    /\ PessimisticAttempt(p, [procs[p] EXCEPT !.retry = 0, !.max_retries = HybridPessimisticRetries],
                          "reserve_hybrid_fallback", cache, fault)

\* the 30 second lifetime of the cache entry has run out
contention_cache_expires ==
    /\ cache # {}
    /\ cache' = {}
    /\ last' = Observed("contention_cache_expires", FALSE, FALSE, "", FALSE, 0, 0, NoUser, 0, FALSE, 0, NoStock)
    /\ UNCHANGED <<stock, reservations, log, now, procs, granted>>

\* ------------------- StockMaintenanceService.clean_expired_reservations
IsExpiredPending(r) == r.status = "pending" /\ r.expires_at < now

\* the loop calls cancel_reservation(reservation.id, reason=..., force=True)
\* without the required `user` argument: the first call raises TypeError,
\* which leaves the method and rolls its transaction back
clean_expired_reservations ==
    /\ IF \E i \in 1..Len(reservations) : IsExpiredPending(reservations[i])
       THEN last' = Result("clean_expired_reservations", TRUE, FALSE, "RAISED", FALSE, 0, 0, NoUser, 0, TRUE, 0)
       ELSE last' = Result("clean_expired_reservations", TRUE, TRUE, "", FALSE, 0, 0, NoUser, 0, TRUE, 0)
    /\ UNCHANGED <<stock, reservations, log, now, procs, granted, cache>>

\* --------------- StockMaintenanceService.recalculate_stock_availability
RECURSIVE ConfirmedTotal(_)
\* Sum("quantity") over the reservations with status CONFIRMED, `or 0`
ConfirmedTotal(rs) ==
    IF rs = <<>> THEN 0
    ELSE (IF Head(rs).status = "confirmed" THEN Head(rs).quantity ELSE 0) + ConfirmedTotal(Tail(rs))

\* the recalculation that counts the pending reservations as well
RecalculatedStockWithPending(s, rs) ==
    LET held[n \in 0..Len(rs)] ==
            IF n = 0 THEN 0
            ELSE held[n - 1] + (IF rs[n].status \in {"confirmed", "pending"}
                                THEN rs[n].quantity ELSE 0)
    IN [s EXCEPT !.reserved_stock = held[Len(rs)],
                 !.available_stock = s.physical_stock - held[Len(rs)]]

RecalculatedStock(s, rs) ==
    [s EXCEPT !.reserved_stock = ConfirmedTotal(rs),
              !.available_stock = s.physical_stock - ConfirmedTotal(rs)]

recalculate_stock_availability(product_id) ==
    IF product_id # KnownProduct
    THEN \* ProductStock.DoesNotExist: return False
         /\ last' = Result("recalculate_stock_availability", TRUE, FALSE, "NOT_FOUND", FALSE, 0, 0, NoUser, 0, FALSE, 0)
         /\ UNCHANGED <<stock, reservations, log, now, procs, granted, cache>>
    ELSE /\ stock' = RecalculatedStock(stock, reservations)
         /\ last' = Result("recalculate_stock_availability", TRUE, TRUE, "", FALSE, 0, 0, NoUser, 0, FALSE, 0)
         /\ UNCHANGED <<reservations, log, now, procs, granted, cache>>

\* ------------------------------------------------------------------ time
\* timezone.now() moves on between calls
Tick ==
    /\ now < MaxTime
    /\ now' = now + TickMinutes
    /\ cache' = {}
    /\ last' = Observed("tick", FALSE, FALSE, "", FALSE, 0, 0, NoUser, 0, FALSE, 0, NoStock)
    /\ UNCHANGED <<stock, reservations, log, procs, granted>>

\* the rows kept within the bounds of the exploration
InBounds == Len(reservations') <= MaxRes /\ Len(log') <= MaxLog

InRaceBounds == Len(reservations') <= MaxRaceRes

InMaintenanceBounds == Len(reservations') <= MaxMaintRes /\ Len(log') <= MaxLog

\* StockService on one product, one caller at a time inside reserve_stock
Next ==
    \/ \E p \in Callers, q \in Quantities, u \in ReserveUsers, o \in Orders, d \in LifecycleDurations :
         reserve_stock(p, q, u, o, d) /\ InBounds
    \/ \E p \in Callers : ReserveStockLog(p) /\ InBounds
    \/ \E rid \in 1..MaxRes, u \in Users : confirm_reservation(rid, u) /\ InBounds
    \/ \E rid \in 1..MaxRes, u \in Users, reason \in Reasons, force \in BOOLEAN :
         cancel_reservation(rid, u, reason, force) /\ InBounds
    \/ \E q \in InboundQuantities, u \in Users : inbound_stock(q, u) /\ InBounds
    \/ clean_expired_reservations
    \/ Tick

Spec == Init /\ [][Next]_vars

\* StockMaintenanceService running between the calls of StockService
NextMaintenance ==
    \/ \E p \in Callers, q \in Quantities, u \in ReserveUsers, o \in Orders, d \in LifecycleDurations :
         reserve_stock(p, q, u, o, d) /\ InMaintenanceBounds
    \/ \E p \in Callers : ReserveStockLog(p) /\ InMaintenanceBounds
    \/ \E rid \in 1..MaxMaintRes, u \in Users : confirm_reservation(rid, u) /\ InMaintenanceBounds
    \/ \E rid \in 1..MaxMaintRes, u \in Users, reason \in Reasons, force \in BOOLEAN :
         cancel_reservation(rid, u, reason, force) /\ InMaintenanceBounds
    \/ clean_expired_reservations
    \/ \E product_id \in ProductIds : recalculate_stock_availability(product_id)
    \/ Tick

SpecMaintenance == Init /\ [][NextMaintenance]_vars

\* concurrent reserve calls through every entry point, by the callers in Procs
NextReserve ==
    \/ \E p \in Procs, q \in Quantities, u \in RaceUsers, o \in Orders, d \in Durations :
         reserve_stock(p, q, u, o, d) /\ InRaceBounds
    \/ \E p \in Procs : ReserveStockLog(p)
    \/ \E p \in Procs, q \in Quantities, u \in RaceUsers, o \in Orders, d \in Durations, m \in Retries :
         reserve_stock_optimistic(p, q, u, o, d, m)
    \/ \E p \in Procs : attempt_reservation_read(p)
    \/ \E p \in Procs : attempt_reservation_write(p, "none") /\ InRaceBounds
    \/ \E p \in Procs, q \in Quantities, u \in RaceUsers, o \in Orders, d \in Durations,
          strategy \in Strategies :
         reserve_stock_enhanced(p, q, u, o, d, strategy, "sampled", "none") /\ InRaceBounds
    \/ \E p \in Procs : attempt_reservation_with_isolation_write(p, "none") /\ InRaceBounds
    \/ \E p \in Procs : reserve_hybrid_fallback(p, "none") /\ InRaceBounds

SpecReserve == Init /\ [][NextReserve]_vars

\* reserve calls with the ADAPTIVE strategy next to the other entry points;
\* the cache holds any contention sample, or none, when the calls begin
InitAdaptive ==
    /\ \E k \in InitialStock :
         stock = [physical_stock |-> k, reserved_stock |-> 0, available_stock |-> k, version |-> 0]
    /\ reservations = <<>>
    /\ log = <<>>
    /\ now = 0
    /\ procs = [p \in Procs |-> IdleProc]
    /\ last = Observed("init", FALSE, FALSE, "", FALSE, 0, 0, NoUser, 0, FALSE, 0, NoStock)
    /\ granted = 0
    /\ \/ cache = {}
       \/ \E a \in SampleStocks, n \in 0..MaxSampleCount :
            cache = {ContentionSample(a, n, a + n, n)}

InAdaptiveBounds == Len(reservations') <= MaxAdaptiveRes

NextAdaptive ==
    \/ \E p \in Procs, q \in AdaptiveQuantities, u \in RaceUsers, o \in Orders, d \in LifecycleDurations,
          strategy \in AdaptiveStrategies, analysis \in AnalysisOutcomes :
         reserve_stock_enhanced(p, q, u, o, d, strategy, analysis, "none") /\ InAdaptiveBounds
    \/ \E p \in Procs : attempt_reservation_with_isolation_write(p, "none") /\ InAdaptiveBounds
    \/ \E p \in Procs : reserve_hybrid_fallback(p, "none") /\ InAdaptiveBounds
    \/ \E p \in Callers, q \in AdaptiveQuantities, u \in RaceUsers, o \in Orders, d \in LifecycleDurations :
         reserve_stock(p, q, u, o, d) /\ InAdaptiveBounds
    \/ \E p \in Callers : ReserveStockLog(p)
    \/ \E p \in Callers, q \in AdaptiveQuantities, u \in RaceUsers, o \in Orders, d \in LifecycleDurations,
          m \in Retries :
         reserve_stock_optimistic(p, q, u, o, d, m)
    \/ \E p \in Callers : attempt_reservation_read(p)
    \/ \E p \in Callers : attempt_reservation_write(p, "none") /\ InAdaptiveBounds
    \/ contention_cache_expires

SpecAdaptive == InitAdaptive /\ [][NextAdaptive]_vars

\* inbound_stock called by any user with any quantity and availability
\* checks, next to reserve calls
NextInbound ==
    \/ \E product_id \in ProductIds, q \in Quantities, include_reserved \in BOOLEAN :
         check_availablity(product_id, q, include_reserved)
    \/ \E q \in InboundAnyQuantities, u \in Users : inbound_stock(q, u) /\ InBounds
    \/ \E p \in Callers, q \in Quantities, u \in RaceUsers, o \in Orders, d \in LifecycleDurations :
         reserve_stock(p, q, u, o, d) /\ InBounds
    \/ \E p \in Callers : ReserveStockLog(p) /\ InBounds

SpecInbound == Init /\ [][NextInbound]_vars

\* reserve calls of two callers while the storage may fail any attempt: a
\* call starts while fewer than MaxRetryRes rows exist, and a call that has
\* started is never held back
RetryRoom == Len(reservations) < MaxRetryRes

\* the steps that continue the call of caller p
Continue(p) ==
    \/ attempt_reservation_read(p)
    \/ \E fault \in Faults : attempt_reservation_write(p, fault)
    \/ \E fault \in Faults : attempt_reservation_with_isolation_write(p, fault)
    \/ \E fault \in Faults : attempt_reservation_with_isolation_retry(p, fault)
    \/ \E fault \in Faults : reserve_hybrid_fallback(p, fault)

NextRetry ==
    \/ \E p \in Procs, q \in RetryQuantities, u \in ReserveUsers, o \in Orders, d \in LifecycleDurations,
          strategy \in Strategies, fault \in Faults :
         RetryRoom /\ reserve_stock_enhanced(p, q, u, o, d, strategy, "sampled", fault)
    \/ \E p \in Procs, q \in RetryQuantities, u \in RaceUsers, o \in Orders, d \in LifecycleDurations,
          m \in RetryBudgets :
         RetryRoom /\ reserve_stock_optimistic(p, q, u, o, d, m)
    \/ \E p \in Procs : Continue(p)

SpecRetry == Init /\ [][NextRetry]_vars

\* a caller that is inside a call keeps running: its thread is scheduled
\* again and every backoff sleep ends
SpecRetryFair == SpecRetry /\ \A p \in Procs : WF_vars(Continue(p))

\* the sweep runs on a timer: it is run again and again
SpecSweepFair == Spec /\ WF_vars(clean_expired_reservations)

\* ===================================================== row locks, two products
\* The transactions of StockService and StockMaintenanceService statement by
\* statement, each SELECT ... FOR UPDATE as one step that waits until the row
\* is free.  Under SpecLocking `stock` holds the stock row of every product
\* in LockProducts, every reservation carries its product_stock, and `procs`
\* holds the open transaction of every process in LockProcs.

\* the product of the second stock row
OtherProduct == "product-2"
LockProducts == {KnownProduct, OtherProduct}

\* the timer-driven process that runs the sweep, next to the callers in Procs
Sweeper == 0
LockProcs == Procs \cup {Sweeper}

LockUsers == {"alice", "admin"}
\* the cancel calls: the owner's, and the forced one of a superuser
CancelCalls == {<<"alice", FALSE>>, <<"admin", TRUE>>}
\* the caller that books inbound stock and runs the recalculation, and the
\* product it does so for
Operators == {1}
OperatedProducts == {KnownProduct}
LockQuantities == {1}

\* the row lock on a reservation and on the stock row of a product
ReservationLock(rid) ==
    [kind |-> "reservation", rid |-> rid, product |-> reservations[rid].product_stock]

StockLock(k) ==
    [kind |-> "stock", rid |-> 0, product |-> k]

\* a process without an open transaction.  plan: the rows the transaction
\* still locks, in the order of its statements; held: the row locks it has;
\* began_pending: whether its reservation was PENDING when the call began
IdleTxn ==
    [pc |-> "idle", op |-> "", rid |-> 0, product |-> "", qty |-> 0, user |-> NoUser,
     order |-> "", dur |-> 0, reason |-> "", force |-> FALSE,
     held |-> {}, plan |-> <<>>, began_pending |-> FALSE]

\* a row lock is granted when no other transaction holds it
LockFree(p, l) ==
    \A other \in LockProcs \ {p} : l \notin procs[other].held

\* the transaction of p has all its rows, or its next row is free
NotBlocked(p) ==
    IF procs[p].plan = <<>> THEN TRUE ELSE LockFree(p, Head(procs[p].plan))

\* the rows with a product and StockReservation.objects.create(product_stock=...)
NewProductReservation(k, q, user, order, d) ==
    [product_stock |-> k] @@ NewReservation(q, user, order, d)

\* the reservations of one stock row (filter(product_stock=stock))
ReservationsOf(k) ==
    SelectSeq(reservations, LAMBDA r : r.product_stock = k)

InitLocking ==
    /\ \E n \in InitialStock :
         stock = [k \in LockProducts |->
                    [physical_stock |-> n, reserved_stock |-> 0, available_stock |-> n, version |-> 0]]
    /\ reservations = <<>>
    /\ log = <<>>
    /\ now = 0
    /\ procs = [p \in LockProcs |-> IdleTxn]
    /\ last = Observed("init", FALSE, FALSE, "", FALSE, 0, 0, NoUser, 0, FALSE, 0, NoStock)
    /\ granted = 0
    /\ cache = {}

\* the transactions in flight that will write a log entry, and those that
\* will create a reservation: a call begins only while the rows kept have
\* room for what the open transactions may still write
OpenTransactions(ops) ==
    Cardinality({p \in LockProcs : procs[p].pc = "run" /\ procs[p].op \in ops})

LogRoom ==
    Len(log) + OpenTransactions({"reserve_stock", "confirm_reservation",
                                 "cancel_reservation", "inbound_stock"}) < MaxLockLog

ReservationRoom ==
    Len(reservations) + OpenTransactions({"reserve_stock"}) < MaxLockRes

\* the call returns (its transaction commits or rolls back, its locks go)
Return(p, op, ok, code, rid) ==
    /\ procs' = [procs EXCEPT ![p] = IdleTxn]
    /\ last' = Observed(op, TRUE, ok, code, FALSE, rid, 0, NoUser, 0, FALSE, 0, NoStock)

\* the call has locked the first row of its plan and goes on
Locked(p, c) ==
    /\ procs' = [procs EXCEPT ![p] = [c EXCEPT !.held = @ \cup {Head(c.plan)},
                                               !.plan = Tail(@)]]
    /\ last' = Observed(c.op, FALSE, FALSE, "", FALSE, 0, 0, NoUser, 0, FALSE, 0, NoStock)

\* the call enters its transaction with the rows it is going to lock
Begin(p, txn) ==
    /\ procs' = [procs EXCEPT ![p] =
                   [txn EXCEPT !.pc = "run",
                               !.began_pending = (txn.rid # 0 /\ reservations[txn.rid].status = "pending")]]
    /\ last' = Observed(txn.op, FALSE, FALSE, "", FALSE, 0, 0, NoUser, 0, FALSE, 0, NoStock)

\* ---- reserve_stock: select_for_update on the stock row, then the create
ReserveLocks(k) == <<StockLock(k)>>

reserve_stock_begin(p, k, q, user, order, d) ==
    /\ procs[p].pc = "idle"
    /\ ReservationRoom /\ LogRoom
    /\ IF InvalidQuantity(q)
       THEN Return(p, "reserve_stock", FALSE, "INVALID_QUANTITY", 0)
       ELSE Begin(p, [IdleTxn EXCEPT !.op = "reserve_stock", !.product = k, !.qty = q,
                                     !.user = user, !.order = order, !.dur = d,
                                     !.plan = ReserveLocks(k)])
    /\ UNCHANGED <<stock, reservations, log, now, granted, cache>>

\* the select_for_update of the call; with the row locked, the block and the
\* log entry written right after it (the INSERT of the log entry waits for
\* no row)
reserve_stock_locked(p) ==
    LET c == procs[p]
        k == c.product
        s == HoldStock(stock[k], c.qty)
        rid == Len(reservations) + 1
    IN /\ c.pc = "run" /\ c.op = "reserve_stock"
       /\ NotBlocked(p)
       /\ IF c.plan # <<>>
          THEN /\ Locked(p, c)
               /\ UNCHANGED <<stock, reservations, log, now, granted, cache>>
          ELSE IF InsufficientStock(stock[k], c.qty)
          THEN /\ Return(p, c.op, FALSE, "INSUFFICIENT_STOCK", 0)
               /\ UNCHANGED <<stock, reservations, log, now, granted, cache>>
          ELSE IF c.user = NoUser
          THEN /\ Return(p, c.op, FALSE, "RESERVATION_ERROR", 0)
               /\ UNCHANGED <<stock, reservations, log, now, granted, cache>>
          ELSE /\ reservations' = Append(reservations, NewProductReservation(k, c.qty, c.user, c.order, c.dur))
               /\ stock' = [stock EXCEPT ![k] = s]
               /\ log' = Append(log, BaseTransactionLog(s, "reserve", c.qty, "reservation", ToString(rid)))
               /\ granted' = granted + c.qty
               /\ Return(p, c.op, TRUE, "", rid)
               /\ UNCHANGED <<now, cache>>

\* ---- confirm_reservation: the reservation row, then its stock row
ConfirmLocks(rid) == <<ReservationLock(rid), StockLock(reservations[rid].product_stock)>>

confirm_reservation_begin(p, rid, user) ==
    /\ procs[p].pc = "idle"
    /\ rid \in 1..Len(reservations)
    /\ LogRoom
    /\ IF ~is_superuser(user)
       THEN Return(p, "confirm_reservation", FALSE, "PERMISSION_DENIED", rid)
       ELSE Begin(p, [IdleTxn EXCEPT !.op = "confirm_reservation", !.rid = rid,
                                     !.product = reservations[rid].product_stock,
                                     !.qty = reservations[rid].quantity, !.user = user,
                                     !.plan = ConfirmLocks(rid)])
    /\ UNCHANGED <<stock, reservations, log, now, granted, cache>>

\* the next select_for_update of the call, with the checks that follow the
\* lock on the reservation; with every row locked, the updates and the commit
confirm_reservation_locked(p) ==
    LET c == procs[p]
        l == Head(c.plan)
        k == c.product
        r == reservations[c.rid]
        s == ConfirmStock(stock[k], r.quantity)
        rej == ConfirmRejection(r, c.user)
    IN /\ c.pc = "run" /\ c.op = "confirm_reservation"
       /\ NotBlocked(p)
       /\ IF c.plan # <<>> /\ l.kind = "reservation" /\ rej # ""
          THEN /\ Return(p, c.op, FALSE, rej, c.rid)
               /\ UNCHANGED <<stock, reservations, log, now, granted, cache>>
          ELSE IF c.plan # <<>>
          THEN /\ Locked(p, c)
               /\ UNCHANGED <<stock, reservations, log, now, granted, cache>>
          ELSE IF ~ConstraintsHold(s)
          THEN /\ Return(p, c.op, FALSE, "ERROR", c.rid)
               /\ UNCHANGED <<stock, reservations, log, now, granted, cache>>
          ELSE /\ reservations' = [reservations EXCEPT ![c.rid].status = "confirmed",
                                                       ![c.rid].confirmed_at = now]
               /\ stock' = [stock EXCEPT ![k] = s]
               /\ log' = Append(log, BaseTransactionLog(s, "outbound", r.quantity, "order", r.order_id))
               /\ Return(p, c.op, TRUE, "", c.rid)
               /\ UNCHANGED <<now, granted, cache>>

\* ---- cancel_reservation: the stock row before the reservation row
CancelLocksStockFirst(rid) == <<StockLock(reservations[rid].product_stock), ReservationLock(rid)>>

\* ---- cancel_reservation: the reservation row, then its stock row
CancelLocks(rid) == <<ReservationLock(rid), StockLock(reservations[rid].product_stock)>>

cancel_reservation_begin(p, rid, user, reason, force) ==
    /\ procs[p].pc = "idle"
    /\ rid \in 1..Len(reservations)
    /\ LogRoom
    /\ Begin(p, [IdleTxn EXCEPT !.op = "cancel_reservation", !.rid = rid,
                                !.product = reservations[rid].product_stock,
                                !.qty = reservations[rid].quantity, !.user = user,
                                !.reason = reason, !.force = force,
                                !.plan = CancelLocks(rid)])
    /\ UNCHANGED <<stock, reservations, log, now, granted, cache>>

cancel_reservation_locked(p) ==
    LET c == procs[p]
        l == Head(c.plan)
        k == c.product
        r == reservations[c.rid]
        s == CancelStock(stock[k], r)
        rej == CancelRejection(r, c.user, c.force)
    IN /\ c.pc = "run" /\ c.op = "cancel_reservation"
       /\ NotBlocked(p)
       /\ IF c.plan # <<>> /\ l.kind = "reservation" /\ rej # ""
          THEN /\ Return(p, c.op, FALSE, rej, c.rid)
               /\ UNCHANGED <<stock, reservations, log, now, granted, cache>>
          ELSE IF c.plan # <<>>
          THEN /\ Locked(p, c)
               /\ UNCHANGED <<stock, reservations, log, now, granted, cache>>
          ELSE IF ~ConstraintsHold(s)
          THEN /\ Return(p, c.op, FALSE, "ERROR", c.rid)
               /\ UNCHANGED <<stock, reservations, log, now, granted, cache>>
          ELSE /\ reservations' = [reservations EXCEPT ![c.rid].status = "cancelled",
                                                       ![c.rid].cancelled_at = now,
                                                       ![c.rid].cancellation_reason = c.reason]
               /\ stock' = [stock EXCEPT ![k] = s]
               /\ log' = Append(log, BaseTransactionLog(s, "release", r.quantity,
                                                        "reservation", ToString(c.rid)))
               /\ Return(p, c.op, TRUE, "", c.rid)
               /\ UNCHANGED <<now, granted, cache>>

\* ---- inbound_stock: Product.objects.get, then select_for_update on the stock row
InboundLocks(k) == <<StockLock(k)>>

inbound_stock_begin(p, k, q, user) ==
    /\ procs[p].pc = "idle"
    /\ LogRoom
    /\ IF ~is_superuser(user)
       THEN Return(p, "inbound_stock", FALSE, "PERMISSION_DENIED", 0)
       ELSE Begin(p, [IdleTxn EXCEPT !.op = "inbound_stock", !.product = k, !.qty = q,
                                     !.user = user, !.plan = InboundLocks(k)])
    /\ UNCHANGED <<stock, reservations, log, now, granted, cache>>

inbound_stock_locked(p) ==
    LET c == procs[p]
        k == c.product
        s == InboundStock(stock[k], c.qty)
    IN /\ c.pc = "run" /\ c.op = "inbound_stock"
       /\ NotBlocked(p)
       /\ IF c.plan # <<>>
          THEN /\ Locked(p, c)
               /\ UNCHANGED <<stock, reservations, log, now, granted, cache>>
          ELSE IF ~ConstraintsHold(s)
          THEN /\ Return(p, c.op, FALSE, "ERROR", 0)
               /\ UNCHANGED <<stock, reservations, log, now, granted, cache>>
          ELSE /\ stock' = [stock EXCEPT ![k] = s]
               /\ log' = Append(log, BaseTransactionLog(s, "inbound", c.qty, "inbound",
                                                        "INBOUND-" \o ToString(now)))
               /\ Return(p, c.op, TRUE, "", 0)
               /\ UNCHANGED <<reservations, now, granted, cache>>

\* ---- recalculate_stock_availability: select_for_update on the stock row
RecalculateLocks(k) == <<StockLock(k)>>

recalculate_stock_availability_begin(p, k) ==
    /\ procs[p].pc = "idle"
    /\ Begin(p, [IdleTxn EXCEPT !.op = "recalculate_stock_availability", !.product = k,
                                !.plan = RecalculateLocks(k)])
    /\ UNCHANGED <<stock, reservations, log, now, granted, cache>>

recalculate_stock_availability_locked(p) ==
    LET c == procs[p]
        k == c.product
    IN /\ c.pc = "run" /\ c.op = "recalculate_stock_availability"
       /\ NotBlocked(p)
       /\ IF c.plan # <<>>
          THEN /\ Locked(p, c)
               /\ UNCHANGED <<stock, reservations, log, now, granted, cache>>
          ELSE /\ stock' = [stock EXCEPT ![k] = RecalculatedStock(stock[k], ReservationsOf(k))]
               /\ Return(p, c.op, TRUE, "", 0)
               /\ UNCHANGED <<reservations, log, now, granted, cache>>

\* ---- clean_expired_reservations: one SELECT ... FOR UPDATE over the expired
\* PENDING reservations of every product, without ORDER BY
ExpiredPending ==
    {rid \in 1..Len(reservations) : IsExpiredPending(reservations[rid])}

\* the orders in which the statement may come to lock the rows of S
LockOrders(S) ==
    {o \in [1..Cardinality(S) -> S] : \A i, j \in 1..Cardinality(S) : o[i] = o[j] => i = j}

clean_expired_reservations_begin(p) ==
    /\ p = Sweeper
    /\ procs[p].pc = "idle"
    /\ IF ExpiredPending = {}
       THEN Return(p, "clean_expired_reservations", TRUE, "", 0)
       ELSE \E o \in LockOrders(ExpiredPending) :
              Begin(p, [IdleTxn EXCEPT !.op = "clean_expired_reservations", !.force = TRUE,
                                       !.plan = [i \in 1..Len(o) |-> ReservationLock(o[i])]])
    /\ UNCHANGED <<stock, reservations, log, now, granted, cache>>

\* the statement locks its next row, or passes it when the row no longer
\* matches; with its rows locked the loop makes its first call
\* cancel_reservation(id, reason=..., force=True), which lacks `user` and
\* raises TypeError: the transaction rolls back
clean_expired_reservations_locked(p) ==
    LET c == procs[p]
        l == Head(c.plan)
        held == IF IsExpiredPending(reservations[l.rid]) THEN c.held \cup {l} ELSE c.held
    IN /\ c.pc = "run" /\ c.op = "clean_expired_reservations"
       /\ NotBlocked(p)
       /\ IF c.plan # <<>>
          THEN /\ procs' = [procs EXCEPT ![p] = [c EXCEPT !.held = held, !.plan = Tail(@)]]
               /\ last' = Observed(c.op, FALSE, FALSE, "", FALSE, 0, 0, NoUser, 0, FALSE, 0, NoStock)
          ELSE IF c.held # {}
          THEN Return(p, c.op, FALSE, "RAISED", 0)
          ELSE Return(p, c.op, TRUE, "", 0)
       /\ UNCHANGED <<stock, reservations, log, now, granted, cache>>

\* the next statement of the open transaction of p
Proceed(p) ==
    \/ reserve_stock_locked(p)
    \/ confirm_reservation_locked(p)
    \/ cancel_reservation_locked(p)
    \/ inbound_stock_locked(p)
    \/ recalculate_stock_availability_locked(p)
    \/ clean_expired_reservations_locked(p)

NextLocking ==
    \/ \E p \in Procs, k \in LockProducts, q \in LockQuantities, u \in RaceUsers, o \in Orders,
          d \in LifecycleDurations : reserve_stock_begin(p, k, q, u, o, d)
    \/ \E p \in Procs, rid \in 1..MaxLockRes, u \in LockUsers : confirm_reservation_begin(p, rid, u)
    \/ \E p \in Procs, rid \in 1..MaxLockRes, call \in CancelCalls, reason \in Reasons :
         cancel_reservation_begin(p, rid, call[1], reason, call[2])
    \/ \E p \in Operators, k \in OperatedProducts, q \in InboundQuantities, u \in LockUsers :
         inbound_stock_begin(p, k, q, u)
    \/ \E p \in Operators, k \in OperatedProducts : recalculate_stock_availability_begin(p, k)
    \/ clean_expired_reservations_begin(Sweeper)
    \/ \E p \in LockProcs : Proceed(p)
    \/ Tick

SpecLocking == InitLocking /\ [][NextLocking]_vars

\* the storage grants a row lock to the transactions that wait for it in
\* turn, and a transaction that has its lock runs on to its commit
SpecLockingFair == SpecLocking /\ \A p \in LockProcs : SF_vars(Proceed(p))

\* ================================================================ claims

\* C1: after every operation has committed or rolled back, the row satisfies
\* available_stock + reserved_stock = physical_stock.
C1_LedgerBalanced ==
    stock.available_stock + stock.reserved_stock = stock.physical_stock

\* C2: physical_stock, reserved_stock and available_stock are never negative
\* in a committed state.
C2_LedgerNonNegative ==
    /\ stock.physical_stock >= 0
    /\ stock.reserved_stock >= 0
    /\ stock.available_stock >= 0

\* C7: on a row {physical P, reserved 0, available P}, reserve(q) followed by
\* confirm of that reservation leaves {physical P, reserved 0, available P - q}.
\* The state right after the confirm returned, with the reserve and the
\* confirm as the only two entries of the history.
C7_ReserveThenConfirm ==
    ( /\ last.op = "confirm_reservation" /\ last.ok
      /\ Len(reservations) = 1
      /\ Len(log) = 2
      /\ log[1].transaction_type = "reserve"
      /\ log[2].transaction_type = "outbound" )
    => /\ stock.physical_stock = log[1].before_physical
       /\ stock.reserved_stock = 0
       /\ stock.available_stock = stock.physical_stock - reservations[1].quantity

\* C3: when concurrent reserve calls compete for a row that started with K
\* available units, the calls that report success have a total quantity of
\* at most K, and every other call (with a positive quantity) returns
\* INSUFFICIENT_STOCK or a conflict code.  No inbound happens in this
\* specification, so K is physical_stock.
C3_NoOversell ==
    /\ granted <= stock.physical_stock
    /\ stock.available_stock >= 0
    /\ stock.reserved_stock <= stock.physical_stock
    /\ (last.done /\ ~last.ok /\ last.qty > 0)
         => last.code \in {"INSUFFICIENT_STOCK", "OPTIMISTIC_LOCK_CONFLICT", "MAX_RETRY_EXCEEDED"}

\* all K units are granted and a competing call has just lost with a conflict
C3_Witness ==
    /\ granted = stock.physical_stock
    /\ last.done /\ ~last.ok /\ last.conflict
    /\ last.qty > 0

\* C4: when the conditional update of an optimistic attempt matches zero
\* rows, the attempt ends with a conflict code and the conflict flag set, and
\* the reservation row it created is rolled back: the reservations are what
\* they were before the attempt.
C4_ConflictRollsBack ==
    [][ \A p \in Procs :
          ( /\ procs[p].pc \in {"opt_write", "enh_write"}
            /\ procs'[p] # procs[p]
            /\ procs[p].user # NoUser
            /\ OptimisticUpdateRows(procs[p].version, procs[p].qty) = 0 )
          => /\ last'.conflict
             /\ last'.code \in {"OPTIMISTIC_LOCK_CONFLICT", "MAX_RETRY_EXCEEDED"}
             /\ reservations' = reservations ]_vars

\* C5: an operation is all-or-nothing: a call that returns a failure result
\* has committed none of its changes, and a call that returns success has
\* committed its reservation, its ledger change and its log entry.
C5_AllOrNothing ==
    [][ /\ (last'.done /\ ~last'.ok)
             => (last'.made = 0 /\ UNCHANGED <<stock, reservations, log>>)
        /\ (last'.done /\ last'.ok)
             => (last'.made >= 1 /\ Len(log') = Len(log) + 1) ]_vars

C8_ReserveThenCancel ==
    [][ ( /\ last.op = "reserve_stock_log" /\ last.ok
          /\ reservations[last.rid].status = "pending"
          /\ stock.reserved_stock = last.pre_reserved + last.qty
          /\ stock.available_stock = last.pre_available - last.qty
          /\ last'.op = "cancel_reservation" /\ last'.ok
          /\ last'.rid = last.rid )
        => /\ stock'.available_stock = last.pre_available
           /\ stock'.reserved_stock = last.pre_reserved
           /\ stock'.physical_stock = stock.physical_stock ]_vars

\* the cancel has just succeeded on the reservation made by the entry before
C8_Witness ==
    /\ last.op = "cancel_reservation" /\ last.ok /\ ~last.force
    /\ Len(log) >= 2
    /\ log[Len(log) - 1].transaction_type = "reserve"
    /\ log[Len(log) - 1].reference_id = ToString(last.rid)
    /\ log[Len(log)].transaction_type = "release"
    /\ log[Len(log)].reference_id = ToString(last.rid)
    /\ stock.reserved_stock = 0
    /\ stock.available_stock = stock.physical_stock

\* C9: cancelling a reservation that is already CANCELLED returns a failure
\* and changes nothing; a cancel raises available_stock only when it moves
\* the reservation from a status other than CANCELLED to CANCELLED, and it
\* writes the only RELEASE entry of that reservation.
C9_CancelOnce ==
    [][ last'.op = "cancel_reservation"
        => LET rid == last'.rid
           IN /\ reservations[rid].status = "cancelled"
                   => (~last'.ok /\ UNCHANGED <<stock, reservations, log>>)
              /\ stock'.available_stock # stock.available_stock
                   => /\ reservations[rid].status # "cancelled"
                      /\ reservations'[rid].status = "cancelled"
              /\ log' # log
                   => \A i \in 1..Len(log) :
                        ~(log[i].transaction_type = "release" /\ log[i].reference_id = ToString(rid)) ]_vars

\* a cancel of a cancelled reservation has just been refused
C9_Witness ==
    /\ last.op = "cancel_reservation" /\ ~last.ok
    /\ last.rid \in 1..Len(reservations)
    /\ reservations[last.rid].status = "cancelled"
    /\ reservations[last.rid].cancelled_at # NoTime

\* C10 as stated: once a reservation is CONFIRMED, CANCELLED or EXPIRED, no
\* operation changes its status.
C10_TerminalStatusFinal ==
    [][ \A i \in 1..Len(reservations) :
          reservations[i].status \in {"confirmed", "cancelled", "expired"}
            => reservations'[i].status = reservations[i].status ]_vars

\* C10 amended: a CANCELLED reservation never changes status; a CONFIRMED or
\* EXPIRED one changes status only by a successful cancel with force by a
\* superuser, and then to CANCELLED.
C10_TerminalStatusForcedOnly ==
    [][ \A i \in 1..Len(reservations) :
          LET r == reservations[i]
          IN /\ r.status = "cancelled" => reservations'[i].status = "cancelled"
             /\ (r.status \in {"confirmed", "expired"} /\ reservations'[i].status # r.status)
                  => /\ last'.op = "cancel_reservation" /\ last'.ok
                     /\ last'.rid = i
                     /\ last'.force
                     /\ is_superuser(last'.user)
                     /\ reservations'[i].status = "cancelled" ]_vars

\* a forced cancel has just moved a confirmed reservation to CANCELLED
C10_Witness ==
    /\ last.op = "cancel_reservation" /\ last.ok /\ last.force
    /\ reservations[last.rid].status = "cancelled"
    /\ reservations[last.rid].confirmed_at # NoTime

\* C11: a cancel with force by a superuser on a CONFIRMED reservation
\* succeeds, sets the status to CANCELLED and leaves reserved_stock and
\* available_stock as they were; a successful cancel changes the stock row
\* only when the reservation was never confirmed.
C11_ForceCancelConfirmed ==
    [][ /\ \A rid \in 1..Len(reservations), u \in Superusers, reason \in Reasons :
             (reservations[rid].status = "confirmed" /\ cancel_reservation(rid, u, reason, TRUE))
               => /\ last'.ok
                  /\ reservations'[rid].status = "cancelled"
                  /\ reservations'[rid].cancellation_reason = reason
                  /\ stock'.reserved_stock = stock.reserved_stock
                  /\ stock'.available_stock = stock.available_stock
        /\ (last'.op = "cancel_reservation" /\ last'.ok /\ stock' # stock)
               => reservations[last'.rid].confirmed_at = NoTime ]_vars

\* a superuser has just cancelled a confirmed reservation with force, and the
\* RELEASE entry records the stock row that the confirm left
C11_Witness ==
    /\ last.op = "cancel_reservation" /\ last.ok /\ last.force
    /\ is_superuser(last.user)
    /\ reservations[last.rid].status = "cancelled"
    /\ reservations[last.rid].confirmed_at # NoTime
    /\ Len(log) >= 2
    /\ log[Len(log) - 1].transaction_type = "outbound"
    /\ log[Len(log)].transaction_type = "release"
    /\ log[Len(log)].after_available = log[Len(log) - 1].after_available
    /\ stock.available_stock = log[Len(log) - 1].after_available

\* C12: confirm by a superuser on a PENDING reservation whose expires_at is
\* earlier than now fails with the expiry error, leaves the reservation
\* PENDING and the stock row unchanged; confirm by a superuser on a
\* reservation that is not PENDING fails with the invalid-status error and
\* leaves stock, reservations and log unchanged.
C12_ConfirmRefused ==
    [][ \A rid \in 1..Len(reservations), u \in Superusers :
          LET r == reservations[rid]
          IN confirm_reservation(rid, u)
               => /\ (r.status = "pending" /\ r.expires_at < now)
                       => /\ ~last'.ok /\ last'.code = "EXPIRED"
                          /\ reservations'[rid].status = "pending"
                          /\ UNCHANGED <<stock, reservations, log>>
                  /\ r.status # "pending"
                       => /\ ~last'.ok /\ last'.code = "INVALID_STATUS"
                          /\ UNCHANGED <<stock, reservations, log>> ]_vars

\* the confirm of a pending reservation past its expires_at has just been
\* refused
C12_Witness ==
    /\ last.op = "confirm_reservation" /\ ~last.ok /\ last.code = "EXPIRED"
    /\ reservations[last.rid].status = "pending"
    /\ reservations[last.rid].expires_at < now
    /\ reservations[last.rid].confirmed_at = NoTime

\* C13: clean_expired_reservations changes every PENDING reservation whose
\* expires_at is earlier than now to CANCELLED with an expiry reason, gives
\* the quantity of each back to available_stock, returns normally, and
\* leaves every other reservation untouched.
C13_SweepCancelsExpired ==
    [][ last'.op = "clean_expired_reservations"
        => LET released[n \in 0..Len(reservations)] ==
                   IF n = 0 THEN 0
                   ELSE released[n - 1] + (IF IsExpiredPending(reservations[n])
                                           THEN reservations[n].quantity ELSE 0)
           IN /\ last'.ok
              /\ \A i \in 1..Len(reservations) :
                   IF IsExpiredPending(reservations[i])
                   THEN /\ reservations'[i].status = "cancelled"
                        /\ reservations'[i].cancellation_reason # ""
                   ELSE reservations'[i] = reservations[i]
              /\ stock'.available_stock = stock.available_stock + released[Len(reservations)]
              /\ stock'.reserved_stock = stock.reserved_stock - released[Len(reservations)] ]_vars

\* C14: clean_expired_reservations is not aborted by the failure to cancel
\* one expired reservation: it returns a count, and the count is the number
\* of reservations it moved to CANCELLED.
C14_SweepSurvivesFailure ==
    [][ last'.op = "clean_expired_reservations"
        => /\ last'.code # "RAISED"
           /\ last'.made = Cardinality({i \in 1..Len(reservations) :
                                          /\ reservations[i].status # "cancelled"
                                          /\ reservations'[i].status = "cancelled"}) ]_vars

\* C15: a reserve call of quantity q that finds available_stock < q fails
\* with INSUFFICIENT_STOCK through every entry point and strategy, and
\* leaves the stock row, the reservations and the log unchanged; so does
\* every attempt that ends with INSUFFICIENT_STOCK.
C15_InsufficientStock ==
    [][ /\ ( /\ last'.op \in {"reserve_stock", "reserve_stock_optimistic", "reserve_stock_enhanced"}
             /\ stock.available_stock < last'.qty )
               => /\ last'.done /\ ~last'.ok /\ last'.code = "INSUFFICIENT_STOCK"
                  /\ UNCHANGED <<stock, reservations, log, procs>>
        /\ last'.code = "INSUFFICIENT_STOCK"
               => /\ ~last'.ok
                  /\ UNCHANGED <<stock, reservations, log>> ]_vars

\* an enhanced reserve has just been refused for lack of stock after earlier
\* reservations took all of it
C15_Witness ==
    /\ last.op = "reserve_stock_enhanced" /\ last.done /\ ~last.ok
    /\ last.code = "INSUFFICIENT_STOCK"
    /\ last.qty > stock.available_stock
    /\ stock.reserved_stock > 0
    /\ \A p \in Procs : procs[p].pc = "idle"

\* C16: a reserve call with a quantity of zero or less fails with
\* INVALID_QUANTITY through reserve_stock, reserve_stock_optimistic and
\* reserve_stock_enhanced before anything is read or written: the stock row,
\* the reservations, the log and the contention cache are unchanged, the
\* caller has no attempt in progress and no strategy was selected.
C16_InvalidQuantity ==
    [][ ( /\ last'.op \in {"reserve_stock", "reserve_stock_optimistic", "reserve_stock_enhanced"}
          /\ last'.qty <= 0 )
        => /\ last'.done /\ ~last'.ok /\ last'.code = "INVALID_QUANTITY"
           /\ last'.strategy_used = ""
           /\ UNCHANGED <<stock, reservations, log, cache, procs>> ]_vars

\* an ADAPTIVE call with quantity zero has just been refused while the cache
\* holds a sample that would have selected PESSIMISTIC_ONLY
C16_Witness ==
    /\ last.op = "reserve_stock_enhanced" /\ last.done /\ ~last.ok
    /\ last.code = "INVALID_QUANTITY"
    /\ last.qty = 0
    /\ \E info \in cache : SelectStrategy(info) = "pessimistic_only"

C18_ReconcileKeepsHold ==
    [][ (last'.op = "recalculate_stock_availability" /\ last'.ok)
        => LET pending[n \in 0..Len(reservations)] ==
                   IF n = 0 THEN 0
                   ELSE pending[n - 1] + (IF reservations[n].status = "pending"
                                          THEN reservations[n].quantity ELSE 0)
           IN /\ stock'.reserved_stock >= pending[Len(reservations)]
              /\ stock'.available_stock = stock'.physical_stock - stock'.reserved_stock ]_vars

\* C19: for an ADAPTIVE call the selector returns PESSIMISTIC_ONLY exactly
\* when the analysed sample has concurrent_reservations >= 5 and
\* available_stock <= 10, HYBRID exactly when that does not hold and
\* concurrent_reservations >= 2, and OPTIMISTIC_ONLY otherwise, also when
\* the analysis raises or the product has no stock row (zeroed sample).
C19_StrategySelection ==
    [][ (last'.op = "reserve_stock_enhanced" /\ last'.qty > 0)
        => \A p \in Procs, u \in RaceUsers, o \in Orders, d \in LifecycleDurations,
              analysis \in AnalysisOutcomes :
             reserve_stock_enhanced(p, last'.qty, u, o, d, "adaptive", analysis, "none")
               => LET info == IF cache # {} THEN CHOOSE i \in cache : TRUE ELSE FreshSample
                      high == /\ info.concurrent_reservations >= HIGH_CONTENTION_THRESHOLD
                              /\ info.available_stock <= CRITICAL_STOCK_THRESHOLD
                      middle == ~high /\ info.concurrent_reservations >= 2
                  IN IF analysis = "sampled"
                     THEN /\ last'.strategy_used = "pessimistic_only" <=> high
                          /\ last'.strategy_used = "hybrid" <=> middle
                          /\ last'.strategy_used = "optimistic_only" <=> (~high /\ ~middle)
                     ELSE last'.strategy_used = "optimistic_only" ]_vars

\* an ADAPTIVE call has just run under PESSIMISTIC_ONLY, selected from a
\* cached sample on the two thresholds
C19_Witness ==
    /\ last.op = "reserve_stock_enhanced" /\ last.done
    /\ last.strategy_used = "pessimistic_only"
    /\ \E info \in cache :
         /\ info.concurrent_reservations = HIGH_CONTENTION_THRESHOLD
         /\ info.available_stock = CRITICAL_STOCK_THRESHOLD

\* C20: the contention sample only selects the strategy.  Whatever the
\* cache holds, the stock row stays balanced and non-negative and the
\* quantities granted never exceed the physical stock; and an ADAPTIVE call
\* on a row that no other call changes between its read and its write
\* succeeds when available_stock >= quantity and ends with
\* INSUFFICIENT_STOCK when not, as it does with an empty cache.
C20_SampleOnlySelects ==
    /\ [](/\ stock.available_stock + stock.reserved_stock = stock.physical_stock
          /\ stock.available_stock >= 0 /\ stock.reserved_stock >= 0
          /\ granted <= stock.physical_stock)
    /\ [][ /\ ( /\ last'.op = "reserve_stock_enhanced"
                /\ last'.qty > 0
                /\ last'.code # "RESERVATION_ERROR" )
             => IF stock.available_stock < last'.qty
                THEN last'.done /\ ~last'.ok /\ last'.code = "INSUFFICIENT_STOCK"
                ELSE \/ last'.done /\ last'.ok /\ stock'.reserved_stock = stock.reserved_stock + last'.qty
                     \/ /\ ~last'.done
                        /\ \E p \in Procs : /\ procs[p].pc = "idle"
                                            /\ procs'[p].pc = "enh_write"
                                            /\ procs'[p].version = stock.version
           /\ \A p \in Procs :
                ( /\ procs[p].pc = "enh_write"
                  /\ procs'[p] # procs[p]
                  /\ procs[p].version = stock.version
                  /\ procs[p].seen_available = stock.available_stock )
                  => /\ last'.done /\ last'.ok
                     /\ stock'.reserved_stock = stock.reserved_stock + procs[p].qty ]_vars

\* an ADAPTIVE call has just succeeded under PESSIMISTIC_ONLY, which only a
\* cached sample that does not describe the rows can select here
C20_Witness ==
    /\ last.op = "reserve_stock_enhanced" /\ last.done /\ last.ok
    /\ last.strategy_used = "pessimistic_only"
    /\ stock.reserved_stock >= last.qty
    /\ Len(reservations) < HIGH_CONTENTION_THRESHOLD

\* C21: a HYBRID call runs its first stage, the unlocked attempt, with a
\* retry budget of 1; the locked second stage, with a budget of 2, begins
\* exactly when the first stage has failed with the conflict flag set; a
\* first stage that succeeds or fails without the flag ends the call
C21_HybridFallback ==
    [][\A p \in Procs :
         LET c == procs[p]
             c2 == procs'[p]
         IN (c2 # c /\ (c.strategy = "hybrid" \/ c2.strategy = "hybrid")) =>
              /\ c2.pc \in {"enh_write", "enh_read"} => c2.max_retries = 1
              /\ c2.pc = "enh_lock" => c2.max_retries = 2
              /\ c.pc = "enh_write" => (c2.pc = "enh_pess" <=> (~last'.ok /\ last'.conflict))
              /\ c2.pc = "enh_pess" => c.pc = "enh_write"
              /\ (c.pc \in {"enh_write", "enh_read"} /\ c2.pc = "idle") =>
                   (last'.done /\ ~last'.conflict /\ last'.op # "reserve_hybrid_fallback")
              /\ last'.op = "reserve_hybrid_fallback" => c.pc = "enh_pess"]_vars

\* a HYBRID call whose first stage met a conflict has returned from its
\* second stage with a reservation
C21_Witness ==
    /\ last.op = "reserve_hybrid_fallback"
    /\ last.strategy_used = "hybrid"
    /\ last.done /\ last.ok
    /\ last.attempts = 2

\* C22: every reserve call ends.  A call of the optimistic service or of the
\* enhanced service with retry budget m enters at most m + 1 attempts, a
\* HYBRID call at most (1 + 1) + (2 + 1) = 5, whatever conflicts and storage
\* errors its attempts meet; and a caller that is inside a call is outside
\* it again later.
C22_CallsTerminate ==
    /\ [][\A p \in Procs :
            LET c == procs[p]
                budget == IF c.strategy = "hybrid"
                          THEN (HybridOptimisticRetries + 1) + (HybridPessimisticRetries + 1)
                          ELSE c.max_retries + 1
            IN (procs'[p] # c /\ c.pc # "idle") =>
                 /\ last'.attempts <= budget
                 /\ procs'[p].attempts <= budget
                 /\ last'.attempts \in {c.attempts, c.attempts + 1}
                 /\ (c.strategy = "hybrid" /\ c.pc \in {"enh_write", "enh_read"}) =>
                      last'.attempts <= HybridOptimisticRetries + 1]_vars
    /\ \A p \in Procs : (procs[p].pc # "idle") ~> (procs[p].pc = "idle")

\* a HYBRID call has returned after five attempts, and a call of the
\* optimistic service after its budget of 1 and two attempts
C22_Witness ==
    /\ last.done
    /\ last.strategy_used = "hybrid"
    /\ last.attempts = 5

\* C23: a call whose retry budget is used up and whose last attempt fails,
\* like the ones before it, with a conflict or a retryable storage error
\* returns MAX_RETRY_EXCEEDED with the conflict flag set, in the optimistic
\* service and in the enhanced service alike
C23_BudgetExhausted ==
    [][\A p \in Procs :
         LET c == procs[p]
         IN (/\ c.pc \in {"opt_write", "enh_write", "enh_lock"}
             /\ c.retry = c.max_retries
             /\ procs'[p] # c
             /\ last'.done /\ ~last'.ok
             /\ \/ last'.conflict
                \/ attempt_reservation_with_isolation_write(p, "retryable")
                \/ attempt_reservation_with_isolation_retry(p, "retryable"))
            => (last'.code = "MAX_RETRY_EXCEEDED" /\ last'.conflict)]_vars

\* C24: no exception of the storage leaves reserve_stock_enhanced: every
\* attempt of the enhanced service ends with a result
C24_NoRawException ==
    last.op \in {"reserve_stock_enhanced", "attempt_reservation_with_isolation_write",
                 "attempt_reservation_with_isolation_retry", "reserve_hybrid_fallback"}
      => last.code # "RAISED"

\* C25: a confirm by a requester who is not a superuser fails with the
\* permission error whatever the state of the reservation (pending, expired,
\* confirmed, cancelled), and leaves the reservations, the stock row and the
\* log as they were; a confirm that succeeds is a superuser's
C25_ConfirmNeedsSuperuser ==
    [][last'.op = "confirm_reservation" =>
         /\ last'.ok => is_superuser(last'.user)
         /\ \A rid \in {last'.rid} \cap (1..Len(reservations)), u \in RegularUsers :
              confirm_reservation(rid, u) =>
                /\ ~last'.ok
                /\ last'.code = "PERMISSION_DENIED"
                /\ UNCHANGED <<stock, reservations, log>>]_vars

\* the owner of a reservation that is already confirmed has been refused, and
\* so has the owner of a pending one that a superuser could have confirmed
C25_Witness ==
    /\ last.op = "confirm_reservation"
    /\ last.code = "PERMISSION_DENIED"
    /\ Len(reservations) = 2
    /\ reservations[last.rid].status = "confirmed"
    /\ \E i \in 1..Len(reservations) :
         reservations[i].status = "pending" /\ reservations[i].expires_at >= now

\* C26: a cancel succeeds only for a superuser or the owner of the
\* reservation, only on a PENDING reservation unless force is set, and with
\* force only for a superuser; a cancel that is refused leaves the
\* reservations, the stock row and the log as they were
C26_CancelPermissions ==
    [][last'.op = "cancel_reservation" =>
         /\ last'.ok =>
              LET r == reservations[last'.rid]
              IN /\ is_superuser(last'.user) \/ r.user_id = last'.user
                 /\ r.status = "pending" \/ last'.force
                 /\ last'.force => is_superuser(last'.user)
         /\ ~last'.ok => UNCHANGED <<stock, reservations, log>>
         /\ \A rid \in {last'.rid} \cap (1..Len(reservations)), u \in Users,
               reason \in Reasons, force \in BOOLEAN :
              (/\ cancel_reservation(rid, u, reason, force)
               /\ \/ ~(is_superuser(u) \/ reservations[rid].user_id = u)
                  \/ (~force /\ reservations[rid].status # "pending")
                  \/ (force /\ ~is_superuser(u)))
              => ~last'.ok]_vars

\* a user who is neither superuser nor owner has been refused the cancel of
\* a pending reservation
C26_Witness ==
    /\ last.op = "cancel_reservation"
    /\ ~last.ok
    /\ last.code = "PERMISSION_DENIED"
    /\ reservations[last.rid].status = "pending"
    /\ reservations[last.rid].user_id = "alice"

\* C27: an inbound of a quantity q > 0 that succeeds is a superuser's, adds
\* exactly q to physical_stock and to available_stock, leaves reserved_stock
\* and every reservation as they were and appends one INBOUND log entry for
\* q; an inbound by a user who is not a superuser fails and changes nothing
C27_Inbound ==
    [][last'.op = "inbound_stock" =>
         /\ (last'.ok /\ last'.qty > 0) =>
              /\ is_superuser(last'.user)
              /\ stock'.physical_stock = stock.physical_stock + last'.qty
              /\ stock'.available_stock = stock.available_stock + last'.qty
              /\ stock'.reserved_stock = stock.reserved_stock
              /\ reservations' = reservations
              /\ Len(log') = Len(log) + 1
              /\ SubSeq(log', 1, Len(log)) = log
              /\ log'[Len(log')].transaction_type = "inbound"
              /\ log'[Len(log')].quantity = last'.qty
         /\ \A q \in InboundQuantities, u \in RegularUsers :
              inbound_stock(q, u) =>
                (~last'.ok /\ UNCHANGED <<stock, reservations, log>>)]_vars

\* a superuser's inbound has succeeded while a reservation holds stock
C27_Witness ==
    /\ last.op = "inbound_stock"
    /\ last.ok /\ last.qty > 0
    /\ stock.reserved_stock > 0
    /\ \E i \in 1..Len(reservations) : reservations[i].status = "pending"

\* C28: an inbound with a quantity <= 0 is refused and leaves the stock row
\* and the log as they were: no inbound lowers physical_stock or
\* available_stock
C28_InboundPositiveOnly ==
    [][last'.op = "inbound_stock" =>
         /\ stock'.physical_stock >= stock.physical_stock
         /\ stock'.available_stock >= stock.available_stock
         /\ \A q \in InboundAnyQuantities, u \in Users :
              (q <= 0 /\ inbound_stock(q, u)) =>
                (~last'.ok /\ UNCHANGED <<stock, log>>)]_vars

\* C29: an availability check changes nothing and returns a result: for a
\* product with a stock row, is_available = (available_stock >= quantity)
\* with available_quantity = available_stock, or both on physical_stock when
\* include_reserved is set; for a product without stock row, not available
\* with quantity 0, and no exception
C29_CheckAvailability ==
    [][last'.op = "check_availablity" =>
         /\ UNCHANGED <<stock, reservations, log>>
         /\ last'.code # "RAISED"
         /\ \A product_id \in ProductIds, q \in Quantities, include_reserved \in BOOLEAN :
              check_availablity(product_id, q, include_reserved) =>
                LET available == IF include_reserved THEN stock.physical_stock
                                 ELSE stock.available_stock
                IN IF product_id = KnownProduct
                   THEN last'.ok = (available >= q) /\ last'.available_quantity = available
                   ELSE ~last'.ok /\ last'.available_quantity = 0]_vars

\* C30: every operation that commits a change of the counts of the stock row
\* appends exactly one log entry of its type (reserve: RESERVE, written by
\* the call right after its block; confirm: OUTBOUND; a releasing cancel:
\* RELEASE; inbound: INBOUND; reconcile: ADJUST); an operation that fails
\* appends none; and an append leaves the earlier entries and the
\* reservations of other operations as they were
C30_OneLogEntryPerChange ==
    [][LET changed == \/ stock'.physical_stock # stock.physical_stock
                      \/ stock'.reserved_stock # stock.reserved_stock
                      \/ stock'.available_stock # stock.available_stock
           type == CASE last'.op = "confirm_reservation" -> "outbound"
                     [] last'.op = "cancel_reservation" -> "release"
                     [] last'.op = "inbound_stock" -> "inbound"
                     [] last'.op = "recalculate_stock_availability" -> "adjust"
                     [] OTHER -> "reserve"
       IN /\ Len(log') >= Len(log)
          /\ SubSeq(log', 1, Len(log)) = log
          /\ Len(log') <= Len(log) + 1
          /\ (last'.done /\ ~last'.ok) => log' = log
          /\ last'.op = "reserve_stock_log" =>
               (Len(log') = Len(log) + 1 /\ log'[Len(log')].transaction_type = "reserve"
                /\ reservations' = reservations)
          /\ (changed /\ last'.op # "reserve_stock") =>
               (Len(log') = Len(log) + 1 /\ log'[Len(log')].transaction_type = type)]_vars

C33_LogSnapshots ==
    [][Len(log') = Len(log) + 1 =>
         LET e == log'[Len(log')]
         IN /\ e.after_available = stock'.available_stock
            /\ e.after_physical = stock'.physical_stock
            /\ e.after_available - e.before_available =
                 (IF e.transaction_type \in {"reserve", "outbound"}
                  THEN 0 - e.quantity ELSE e.quantity)
            /\ e.after_physical - e.before_physical =
                 (IF e.transaction_type = "inbound" THEN e.quantity ELSE 0)]_vars

\* C34: among the optimistic reserve attempts that have captured the same
\* version of the stock row at most one commits its update: a committing
\* attempt holds the row's current version and moves the row to a later one,
\* versions never come back, and an attempt whose captured version is no
\* longer the row's matches zero rows, leaves the row alone and reports the
\* conflict, even when available_stock would have covered it
C34_OneWinnerPerVersion ==
    [][/\ stock'.version >= stock.version
       /\ \A p \in Procs :
            (/\ procs[p].pc \in {"opt_write", "enh_write"}
             /\ procs'[p] # procs[p]
             /\ last'.op \in {"attempt_reservation_write",
                              "attempt_reservation_with_isolation_write"}) =>
              IF last'.ok
              THEN /\ procs[p].version = stock.version
                   /\ stock'.version > stock.version
                   /\ \A p2 \in Procs \ {p} :
                        procs'[p2].pc \in {"opt_write", "enh_write"}
                          => procs'[p2].version < stock'.version
              ELSE procs[p].version # stock.version =>
                     /\ last'.conflict
                     /\ last'.code \in {"OPTIMISTIC_LOCK_CONFLICT", "MAX_RETRY_EXCEEDED"}
                     /\ stock' = stock
                     /\ log' = log
                     /\ granted' = granted]_vars

\* an attempt has just lost on its version although the stock still covers it
C34_Witness ==
    /\ last.op \in {"attempt_reservation_write", "attempt_reservation_with_isolation_write"}
    /\ last.conflict
    /\ last.qty > 0
    /\ stock.available_stock >= last.qty
    /\ stock.version > 0

\* C35: in every committed state reached by reserve (any service), confirm,
\* cancel, the sweep of expired reservations and the recalculation,
\* reserved_stock equals the sum of the quantities of the PENDING
\* reservations
C35_ReservedIsPendingTotal ==
    LET pending[n \in 0..Len(reservations)] ==
            IF n = 0 THEN 0
            ELSE pending[n - 1] + (IF reservations[n].status = "pending"
                                   THEN reservations[n].quantity ELSE 0)
    IN stock.reserved_stock = pending[Len(reservations)]

\* C36: every committed change of the counts of the stock row, by whatever
\* operation, also changes the row's version, so that an optimistic attempt
\* that captured the version before the change cannot pass its version check
\* after it
C36_ChangeBumpsVersion ==
    [][(\/ stock'.physical_stock # stock.physical_stock
        \/ stock'.reserved_stock # stock.reserved_stock
        \/ stock'.available_stock # stock.available_stock)
         => /\ stock'.version # stock.version
            /\ \A p \in Procs :
                 (procs'[p].pc \in {"opt_write", "enh_write"} /\ procs'[p] = procs[p])
                   => procs'[p].version # stock'.version]_vars

\* C37: a PENDING reservation that has not expired stays resolvable, also
\* after a recalculation: a confirm of it by a superuser and a cancel of it
\* by its owner succeed, and are never refused because reserved_stock would
\* become negative
C37_ResolvableAfterReconcile ==
    [][(last'.op \in {"confirm_reservation", "cancel_reservation"}) =>
         \A rid \in {last'.rid} \cap (1..Len(reservations)) :
           LET r == reservations[rid]
           IN (r.status = "pending" /\ r.expires_at >= now) =>
                /\ \A u \in Superusers : confirm_reservation(rid, u) => last'.ok
                /\ \A reason \in Reasons :
                     cancel_reservation(rid, r.user_id, reason, FALSE) => last'.ok]_vars

\* C40: while the sweep keeps being run, every PENDING reservation whose
\* expires_at has passed eventually leaves PENDING (the sweep cancels it and
\* returns its quantity, unless a caller has resolved it before): no expired
\* hold stays reserved forever
C40_ExpiredEventuallyCancelled ==
    \A rid \in 1..MaxRes :
      (rid <= Len(reservations) /\ IsExpiredPending(reservations[rid]))
        ~> (rid <= Len(reservations) /\ reservations[rid].status # "pending")

C31_NoCrossProductWait ==
    \A p \in LockProcs : \A q \in LockProcs \ {p} :
      (/\ procs[p].op \in {"reserve_stock", "confirm_reservation",
                           "cancel_reservation", "inbound_stock"}
       /\ procs[p].plan # <<>>
       /\ Head(procs[p].plan) \in procs[q].held)
        => \A l \in procs[q].held \cup {procs[q].plan[i] : i \in 1..Len(procs[q].plan)} :
             l.product = procs[p].product

\* C39: when a confirm and a cancel, or the sweep, run concurrently on one
\* PENDING reservation, exactly one of them takes effect: a confirm or cancel
\* that began while the reservation was PENDING succeeds only if no other
\* call has resolved the reservation in between, and a sweep that has locked
\* the reservation a confirm is waiting for leaves it CANCELLED
C39_ConfirmCancelRace ==
    [][\A p \in LockProcs :
         (procs[p].pc = "run" /\ procs'[p].pc = "idle") =>
           /\ (/\ procs[p].op \in {"confirm_reservation", "cancel_reservation"}
               /\ procs[p].began_pending
               /\ last'.ok)
                => reservations[procs[p].rid].status = "pending"
           /\ procs[p].op = "clean_expired_reservations" =>
                \A l \in procs[p].held :
                  (\E q \in LockProcs : /\ procs[q].op = "confirm_reservation"
                                        /\ procs[q].rid = l.rid
                                        /\ procs[q].began_pending)
                    => reservations'[l.rid].status = "cancelled"]_vars

====
